---- MODULE Spec2Model ----
(***************************************************************************)
(* Wildlife-protection map: the coordinate-transform engine                *)
(* (utils/coordinateTransform.ts), the overlay geometry helpers            *)
(* (utils/mapHelpers.ts, utils/groundOverlay.ts) and the overlay life      *)
(* cycle of GoogleMapComponent.tsx on top of the application reducer       *)
(* (store/context.tsx).                                                    *)
(*                                                                         *)
(* JavaScript numbers are modelled as exact rationals, see Numbers below;   *)
(* floating-point rounding is not modelled.                                *)
(***************************************************************************)
EXTENDS Integers, Sequences, FiniteSets, TLC

VARIABLES
    pdfPoints,      \* calculateTransformMatrix: argument pdfPoints
    mapPoints,      \* calculateTransformMatrix: argument mapPoints
    pc,             \* position of the engine: "start", "eliminate", "back", "done", "failed"
    augmented,      \* solveLinearSystem: the working copy [A | B]
    col,            \* solveLinearSystem: loop variable i of the forward elimination (1-based)
    pivotSeen,      \* solveLinearSystem: augmented[i][i] as tested by the singularity check
    solution,       \* solveLinearSystem: the returned vector
    matrix,         \* the TransformMatrix returned by calculateTransformMatrix
    thrown,         \* the error thrown by the last engine call ("none" when it returned)
    query,          \* the last engine call made on the finished matrix and its argument
    answer,         \* what that call returned
    currentPDF,     \* ApplicationState.currentPDF
    referencePoints,\* ApplicationState.referencePoints: [pdf, map]
    currentStep,    \* ApplicationState.currentStep
    overlay,        \* ApplicationState.overlay
    savedConfigs,   \* ApplicationState.savedConfigs
    error,          \* ApplicationState.error
    isPanelVisible, \* ApplicationState.isPanelVisible
    isLoading,      \* GoogleMapComponent: useState isLoading
    mapError,       \* GoogleMapComponent: useState error
    overlayImageUrl,   \* GoogleMapComponent: useState overlayImageUrl
    overlayBounds,     \* GoogleMapComponent: useState overlayBounds
    overlayCreatedRef, \* GoogleMapComponent: overlayCreatedRef.current
    originalBoundsRef, \* GoogleMapComponent: originalBoundsRef.current
    tasks,          \* GoogleMapComponent: the async functions waiting at an await
    nextId,         \* number of overlay ids generated so far
    moves,          \* number of UPDATE_OVERLAY_POSITION dispatched so far
    backend,        \* the storage module in use: utils/localStorage or the IndexedDB one
    stored,         \* what the storage holds: the localStorage item, or the object store
    notification,   \* ErrorNotification: its props, its state and its pending timers
    provider,       \* ApplicationProvider: the startup load, the save timeout, the transactions
    pdfToImage      \* utils/pdfToImage: documentCache, totalMemoryUsage and the pending calls

engineVars == <<pdfPoints, mapPoints, pc, augmented, col, pivotSeen, solution,
                matrix, thrown, query, answer>>

storageVars == <<backend, stored>>

serviceVars == <<provider, pdfToImage>>

appVars == <<currentPDF, referencePoints, currentStep, overlay, savedConfigs, error,
             isPanelVisible>>

mapVars == <<isLoading, mapError, overlayImageUrl, overlayBounds, overlayCreatedRef,
             originalBoundsRef, tasks, nextId, moves>>

vars == <<pdfPoints, mapPoints, pc, augmented, col, pivotSeen, solution,
          matrix, thrown, query, answer,
          currentPDF, referencePoints, currentStep, overlay, savedConfigs, error,
          isPanelVisible,
          isLoading, mapError, overlayImageUrl, overlayBounds, overlayCreatedRef,
          originalBoundsRef, tasks, nextId, moves,
          backend, stored, notification, provider, pdfToImage>>

NoError == "none"
\* an absent value is the empty sequence, a present one a sequence of length 1
Null == <<>>
Some(v) == <<v>>
NoQuery == [op |-> "none", arg |-> Null, from |-> Null]

(***************************************************************************)
(* Bounds of the model.                                                    *)
(***************************************************************************)
MaxLen == 4

(***************************************************************************)
(* Numbers.                                                                *)
(***************************************************************************)
Abs(i) == IF i < 0 THEN 0 - i ELSE i

RECURSIVE GCD(_, _)
GCD(a, b) == IF b = 0 THEN a ELSE GCD(b, a % b)

Sign(i) == IF i < 0 THEN 0 - 1 ELSE IF i > 0 THEN 1 ELSE 0

\* A number is [n, d, k]: the rational n/d in lowest terms, d > 0, times
\* 1e-20 to the power k.  k is 0 for the numbers of ordinary size and for 0;
\* k > 0 is a number too small, k < 0 a number too large, to be written as a
\* quotient of two machine integers.  Since n and d are below 2^31, numbers of
\* different k differ in magnitude by a factor above 1e10.
\* A zero denominator gives what the division gives in JavaScript:
\* n = 1 is Infinity, n = -1 is -Infinity and n = 0 is NaN.
Scaled(num, den, k) ==
    IF den = 0 THEN [n |-> Sign(num), d |-> 0, k |-> 0]
    ELSE IF num = 0 THEN [n |-> 0, d |-> 1, k |-> 0]
    ELSE LET s == Sign(den)
             g == GCD(Abs(num), Abs(den))
         IN  [n |-> (s * num) \div g, d |-> (s * den) \div g, k |-> k]

Rat(num, den) == Scaled(num, den, 0)

Num(i) == [n |-> i, d |-> 1, k |-> 0]

\* of two numbers of different k the one that decides their sum: a NaN or an
\* infinity, else the one that is not 0, else the one larger in magnitude
Dominant(p, q) ==
    IF p.d = 0 THEN p
    ELSE IF q.d = 0 THEN q
    ELSE IF p.n = 0 THEN q
    ELSE IF q.n = 0 THEN p
    ELSE IF p.k < q.k THEN p ELSE q

Neg(p) == [n |-> 0 - p.n, d |-> p.d, k |-> p.k]
Plus(p, q) ==
    IF p.k = q.k THEN Scaled(p.n * q.d + q.n * p.d, p.d * q.d, p.k)
    ELSE Dominant(p, q)
Minus(p, q) == Plus(p, Neg(q))
Times(p, q) == Scaled(p.n * q.n, p.d * q.d, p.k + q.k)
Over(p, q) == Scaled(p.n * q.d, p.d * q.n, p.k - q.k)
MathAbs(p) == [n |-> Abs(p.n), d |-> p.d, k |-> p.k]
Less(p, q) ==
    IF p.k = q.k THEN p.n * q.d < q.n * p.d
    ELSE Minus(q, p).d # 0 /\ Minus(q, p).n > 0
LessEq(p, q) ==
    IF p.k = q.k THEN p.n * q.d <= q.n * p.d
    ELSE Minus(q, p).d # 0 /\ Minus(q, p).n >= 0

CeilDiv(a, b) == (a + b - 1) \div b

\* |p| < 1e-10, i.e. |n| * 10^10 < d, evaluated in two steps of 10^5
EpsScale == 100000
BelowEpsilon(p) ==
    IF p.k = 0 THEN Abs(p.n) < CeilDiv(CeilDiv(p.d, EpsScale), EpsScale)
    ELSE p.k > 0

(***************************************************************************)
(* Inputs of the engine.                                                   *)
(***************************************************************************)
PDFPoint(x, y) == [x |-> Num(x), y |-> Num(y)]
MapPoint(lat, lng) == [lat |-> Num(lat), lng |-> Num(lng)]

\* PDF clicks: three points of one line, and one point off it
PdfPool == {PDFPoint(0, 0), PDFPoint(1, 1), PDFPoint(2, 2), PDFPoint(2, 0)}
\* PDF points with coordinates of the order 1e-20: a triangle and, with a
\* point repeated, degenerate triples
TinyPoint(x, y) == [x |-> Scaled(x, 1, 1), y |-> Scaled(y, 1, 1)]
TinyPdfPool == {TinyPoint(0, 0), TinyPoint(1, 0), TinyPoint(0, 1)}
\* map clicks
MapPool == {MapPoint(0, 0), MapPoint(0, 2), MapPoint(3, 1)}
\* page rectangles, also ones given with min > max
RectPool == [minX : {Num(0), Num(2)}, minY : {Num(0), Num(2)},
             maxX : {Num(0), Num(2)}, maxY : {Num(0), Num(2)}]
\* points asked to be converted
PointPool == {PDFPoint(0, 0), PDFPoint(1, 2), PDFPoint(0 - 1, 3)}
GeoPool == {MapPoint(0, 0), MapPoint(2, 0 - 1)}

SeqsUpTo(S, k) == UNION {[1..m -> S] : m \in 0..k}

(***************************************************************************)
(* utils/coordinateTransform.ts                                            *)
(***************************************************************************)
\* the rows of A with B appended (calculateTransformMatrix builds A and B,
\* solveLinearSystem copies them into augmented)
AugmentedSystem(A, B) == [i \in 1..Len(A) |-> Append(A[i], B[i])]

CoefficientMatrix(pdf) ==
    LET Z == Num(0)
        U == Num(1)
    IN  << <<pdf[1].x, pdf[1].y, U, Z, Z, Z>>,
           <<Z, Z, Z, pdf[1].x, pdf[1].y, U>>,
           <<pdf[2].x, pdf[2].y, U, Z, Z, Z>>,
           <<Z, Z, Z, pdf[2].x, pdf[2].y, U>>,
           <<pdf[3].x, pdf[3].y, U, Z, Z, Z>>,
           <<Z, Z, Z, pdf[3].x, pdf[3].y, U>> >>

ResultVector(map) ==
    <<map[1].lng, map[1].lat, map[2].lng, map[2].lat, map[3].lng, map[3].lat>>

\* pivot selection comparing the signed entries instead of their magnitudes
RECURSIVE SelectPivotSigned(_, _, _, _)
SelectPivotSigned(aug, i, k, maxRow) ==
    IF k > Len(aug) THEN maxRow
    ELSE SelectPivotSigned(aug, i, k + 1,
                           IF Less(aug[maxRow][i], aug[k][i]) THEN k ELSE maxRow)

\* pivot selection: the loop over k = i+1 .. n-1 with its running maxRow
RECURSIVE SelectPivot(_, _, _, _)
SelectPivot(aug, i, k, maxRow) ==
    IF k > Len(aug) THEN maxRow
    ELSE SelectPivot(aug, i, k + 1,
                     IF Less(MathAbs(aug[maxRow][i]), MathAbs(aug[k][i]))
                     THEN k ELSE maxRow)

SwapRows(aug, i, maxRow) ==
    [r \in 1..Len(aug) |->
        IF r = i THEN aug[maxRow] ELSE IF r = maxRow THEN aug[i] ELSE aug[r]]

\* the elimination loops over k = i+1 .. n-1 and j = i .. n
Eliminate(aug, i) ==
    [k \in 1..Len(aug) |->
        IF k <= i THEN aug[k]
        ELSE LET factor == Over(aug[k][i], aug[i][i])
             IN  [j \in 1..(Len(aug) + 1) |->
                    IF j < i THEN aug[k][j]
                    ELSE Minus(aug[k][j], Times(factor, aug[i][j]))]]

\* solution[i] after the inner loop over j = i+1 .. n-1, before the division
RECURSIVE BackSum(_, _, _, _)
BackSum(aug, sol, i, j) ==
    IF j > Len(aug) THEN aug[i][Len(aug) + 1]
    ELSE Minus(BackSum(aug, sol, i, j + 1), Times(aug[i][j], sol[j]))

\* back substitution: the loop over i = n-1 .. 0; sol holds solution[i+1 ..]
RECURSIVE BackSubstitute(_, _, _)
BackSubstitute(aug, sol, i) ==
    IF i = 0 THEN sol
    ELSE LET x == Over(BackSum(aug, sol, i, i + 1), aug[i][i])
         IN  BackSubstitute(aug, [j \in 1..Len(aug) |-> IF j = i THEN x ELSE sol[j]], i - 1)

\* the solution read in the order a, b, c, d, e, f
ToMatrixInFieldOrder(sol) ==
    [a |-> sol[1], b |-> sol[2], c |-> sol[3], d |-> sol[4], e |-> sol[5], f |-> sol[6]]

ToMatrix(sol) ==
    [a |-> sol[1], b |-> sol[2], e |-> sol[3], c |-> sol[4], d |-> sol[5], f |-> sol[6]]

\* a solver without the singularity check
SingularPivotUnchecked(pivot) == FALSE

\* a singularity check with the threshold 1 instead of 1e-10
SingularPivotBelowOne(pivot) == Less(MathAbs(pivot), Num(1))

\* the singularity check of solveLinearSystem
SingularPivot(pivot) == BelowEpsilon(MathAbs(pivot))

\* the forward elimination of solveLinearSystem from column i on
RECURSIVE ForwardEliminate(_, _)
ForwardEliminate(aug, i) ==
    IF i > Len(aug) THEN [thrown |-> NoError, aug |-> aug]
    ELSE LET swapped == SwapRows(aug, i, SelectPivot(aug, i, i + 1, i))
         IN  IF SingularPivot(swapped[i][i])
             THEN [thrown |-> "degenerate", aug |-> swapped]
             ELSE ForwardEliminate(Eliminate(swapped, i), i + 1)

solveLinearSystem(A, B) ==
    LET fwd == ForwardEliminate(AugmentedSystem(A, B), 1)
    IN  IF fwd.thrown # NoError
        THEN [thrown |-> fwd.thrown, solution |-> <<>>]
        ELSE [thrown |-> NoError,
              solution |-> BackSubstitute(fwd.aug, [j \in 1..Len(A) |-> Num(0)], Len(A))]

\* a length check that only rejects too few points
InsufficientPointsFewerOnly(pdf, map) == Len(pdf) < 3 \/ Len(map) < 3

\* the length check of calculateTransformMatrix
InsufficientPoints(pdf, map) == Len(pdf) # 3 \/ Len(map) # 3

calculateTransformMatrix(pdf, map) ==
    IF InsufficientPoints(pdf, map)
    THEN [thrown |-> "insufficient", matrix |-> Null]
    ELSE LET r == solveLinearSystem(CoefficientMatrix(pdf), ResultVector(map))
         IN  IF r.thrown # NoError
             THEN [thrown |-> r.thrown, matrix |-> Null]
             ELSE [thrown |-> NoError, matrix |-> Some(ToMatrix(r.solution))]

transformPDFToGeo(pdfPoint, m) ==
    [lat |-> Plus(Plus(Times(m.c, pdfPoint.x), Times(m.d, pdfPoint.y)), m.f),
     lng |-> Plus(Plus(Times(m.a, pdfPoint.x), Times(m.b, pdfPoint.y)), m.e)]

Determinant(m) == Minus(Times(m.a, m.d), Times(m.b, m.c))

\* an inverse of the linear part only, without the translation terms
transformGeoToPDFLinearOnly(mapPoint, m) ==
    LET det == Determinant(m)
    IN  [x |-> Plus(Times(Over(m.d, det), mapPoint.lng), Times(Over(Neg(m.b), det), mapPoint.lat)),
         y |-> Plus(Times(Over(Neg(m.c), det), mapPoint.lng), Times(Over(m.a, det), mapPoint.lat))]

\* the value returned by transformGeoToPDF when it does not throw
transformGeoToPDF(mapPoint, m) ==
    LET det == Determinant(m)
        invA == Over(m.d, det)
        invB == Over(Neg(m.b), det)
        invC == Over(Neg(m.c), det)
        invD == Over(m.a, det)
        invE == Over(Minus(Times(m.b, m.f), Times(m.d, m.e)), det)
        invF == Over(Minus(Times(m.c, m.e), Times(m.a, m.f)), det)
    IN  [x |-> Plus(Plus(Times(invA, mapPoint.lng), Times(invB, mapPoint.lat)), invE),
         y |-> Plus(Plus(Times(invC, mapPoint.lng), Times(invD, mapPoint.lat)), invF)]

RECURSIVE MathMax(_)
MathMax(s) ==
    IF Len(s) = 1 THEN s[1]
    ELSE LET r == MathMax(Tail(s)) IN IF Less(r, s[1]) THEN s[1] ELSE r

RECURSIVE MathMin(_)
MathMin(s) ==
    IF Len(s) = 1 THEN s[1]
    ELSE LET r == MathMin(Tail(s)) IN IF Less(s[1], r) THEN s[1] ELSE r

Corners(pdfBounds) ==
    << [x |-> pdfBounds.minX, y |-> pdfBounds.minY],
       [x |-> pdfBounds.maxX, y |-> pdfBounds.minY],
       [x |-> pdfBounds.maxX, y |-> pdfBounds.maxY],
       [x |-> pdfBounds.minX, y |-> pdfBounds.maxY] >>

\* the bounding box of two opposite corners only
transformTwoCorners(pdfBounds, m) ==
    LET lo == transformPDFToGeo(Corners(pdfBounds)[1], m)
        hi == transformPDFToGeo(Corners(pdfBounds)[3], m)
    IN  [north |-> MathMax(<<lo.lat, hi.lat>>), south |-> MathMin(<<lo.lat, hi.lat>>),
         east |-> MathMax(<<lo.lng, hi.lng>>), west |-> MathMin(<<lo.lng, hi.lng>>)]

\* the box taken from the input order of the corners, without min/max
transformAssumingOrder(pdfBounds, m) ==
    LET lo == transformPDFToGeo(Corners(pdfBounds)[1], m)
        hi == transformPDFToGeo(Corners(pdfBounds)[3], m)
    IN  [north |-> hi.lat, south |-> lo.lat, east |-> hi.lng, west |-> lo.lng]

transformPDFBoundsToGeoBounds(pdfBounds, m) ==
    LET transformedCorners == [i \in 1..4 |-> transformPDFToGeo(Corners(pdfBounds)[i], m)]
        lats == [i \in 1..4 |-> transformedCorners[i].lat]
        lngs == [i \in 1..4 |-> transformedCorners[i].lng]
    IN  [north |-> MathMax(lats), south |-> MathMin(lats),
         east |-> MathMax(lngs), west |-> MathMin(lngs)]

(***************************************************************************)
(* utils/mapHelpers.ts, utils/groundOverlay.ts                             *)
(***************************************************************************)
\* recentring that adds the whole span on each side instead of half of it
updateOverlayPositionFullSpan(currentBounds, newCenter) ==
    LET latSpan == Minus(currentBounds.north, currentBounds.south)
        lngSpan == Minus(currentBounds.east, currentBounds.west)
    IN  [south |-> Minus(newCenter.lat, latSpan),
         west |-> Minus(newCenter.lng, lngSpan),
         north |-> Plus(newCenter.lat, latSpan),
         east |-> Plus(newCenter.lng, lngSpan)]

updateOverlayPosition(currentBounds, newCenter) ==
    LET latSpan == Minus(currentBounds.north, currentBounds.south)
        lngSpan == Minus(currentBounds.east, currentBounds.west)
    IN  [south |-> Minus(newCenter.lat, Over(latSpan, Num(2))),
         west |-> Minus(newCenter.lng, Over(lngSpan, Num(2))),
         north |-> Plus(newCenter.lat, Over(latSpan, Num(2))),
         east |-> Plus(newCenter.lng, Over(lngSpan, Num(2)))]

(***************************************************************************)
(* types/index.ts, store/context.tsx: the application state and reducer.   *)
(***************************************************************************)
PDF_UPLOAD == 0
REFERENCE_POINT_1 == 1
REFERENCE_POINT_2 == 2
REFERENCE_POINT_3 == 3
OVERLAY_CREATION == 4
OVERLAY_ADJUSTMENT == 5

\* bound on the number of UPDATE_OVERLAY_POSITION dispatched in one behaviour
MaxMoves == 2

\* the PDF files the user can upload, with the page size pdf.js reports
FilePool == {[name |-> "a.pdf", width |-> Num(2), height |-> Num(2)]}
\* the clicks on the PDF page and on the map
ClickPdfPool == {PDFPoint(0, 0), PDFPoint(2, 0), PDFPoint(1, 1)}
ClickMapPool == {MapPoint(0, 0), MapPoint(1, 0), MapPoint(0, 2)}
\* the values the opacity slider is moved to
OpacityPool == {Num(0), Rat(1, 2)}
\* the fine-tuning buttons of OverlayControls: direction and amount in degrees
NudgePool == {<<"north", Rat(1, 1000)>>, <<"south", Rat(1, 1000)>>,
              <<"east", Rat(1, 1000)>>}

initialState ==
    [currentPDF |-> Null,
     referencePoints |-> [pdf |-> <<>>, map |-> <<>>],
     currentStep |-> PDF_UPLOAD,
     overlay |-> Null,
     savedConfigs |-> <<>>,
     error |-> NoError,
     isPanelVisible |-> FALSE]

MathMinInt(a, b) == IF a < b THEN a ELSE b
MathMaxInt(a, b) == IF a > b THEN a ELSE b

\* a search that finds no config, so that every save appends
findIndexNever(configs, id) == 0

\* Array.prototype.findIndex on the ids, 1-based; 0 when no config has the id
findIndex(configs, id) ==
    IF \E i \in 1..Len(configs) : configs[i].id = id
    THEN CHOOSE i \in 1..Len(configs) :
            /\ configs[i].id = id
            /\ \A j \in 1..(i - 1) : configs[j].id # id
    ELSE 0

\* a step that advances with every map point before the third
shouldAdvanceStepAnyPoint(newMapPoints, pdf) == Len(newMapPoints) < 3

\* ADD_MAP_POINT: the pair is complete and it is not the third one
shouldAdvanceStep(newMapPoints, pdf) ==
    /\ Len(newMapPoints) = Len(pdf)
    /\ Len(newMapPoints) < 3

\* TOGGLE_PANEL_VISIBILITY, which the App component with the header button
\* dispatches: the panel is shown when it was hidden, and hidden when it was shown
togglePanelVisibility(state) == [state EXCEPT !.isPanelVisible = ~@]

applicationReducer(state, action) ==
    CASE action.type = "SET_PDF" ->
            [state EXCEPT !.currentPDF = Some(action.payload),
                          !.currentStep = REFERENCE_POINT_1,
                          !.error = NoError]
      [] action.type = "CLEAR_PDF" ->
            [state EXCEPT !.currentPDF = Null,
                          !.currentStep = PDF_UPLOAD,
                          !.referencePoints = [pdf |-> <<>>, map |-> <<>>],
                          !.overlay = Null,
                          !.error = NoError]
      [] action.type = "ADD_PDF_POINT" ->
            [state EXCEPT !.referencePoints.pdf = Append(@, action.payload),
                          !.error = NoError]
      [] action.type = "ADD_MAP_POINT" ->
            LET newMapPoints == Append(state.referencePoints.map, action.payload)
            IN  [state EXCEPT !.referencePoints.map = newMapPoints,
                              !.currentStep = IF shouldAdvanceStep(newMapPoints,
                                                                   state.referencePoints.pdf)
                                              THEN state.currentStep + 1
                                              ELSE IF Len(newMapPoints) = 3 THEN OVERLAY_CREATION
                                              ELSE state.currentStep,
                              !.error = NoError]
      [] action.type = "CLEAR_REFERENCE_POINTS" ->
            [state EXCEPT !.referencePoints = [pdf |-> <<>>, map |-> <<>>],
                          !.currentStep = IF state.currentPDF # Null THEN REFERENCE_POINT_1
                                          ELSE PDF_UPLOAD,
                          !.overlay = Null,
                          !.error = NoError]
      [] action.type = "SET_CURRENT_STEP" ->
            [state EXCEPT !.currentStep = action.payload, !.error = NoError]
      [] action.type = "NEXT_STEP" ->
            [state EXCEPT !.currentStep = MathMinInt(state.currentStep + 1, OVERLAY_ADJUSTMENT),
                          !.error = NoError]
      [] action.type = "PREVIOUS_STEP" ->
            [state EXCEPT !.currentStep = MathMaxInt(state.currentStep - 1, PDF_UPLOAD),
                          !.error = NoError]
      [] action.type = "SET_OVERLAY" ->
            [state EXCEPT !.overlay = Some(action.payload),
                          !.currentStep = OVERLAY_ADJUSTMENT,
                          !.error = NoError]
      [] action.type = "UPDATE_OVERLAY_POSITION" ->
            IF state.overlay = Null THEN state
            ELSE [state EXCEPT !.overlay = Some([state.overlay[1] EXCEPT
                                                    !.position.center = action.payload]),
                               !.error = NoError]
      [] action.type = "UPDATE_OVERLAY_OPACITY" ->
            IF state.overlay = Null THEN state
            ELSE [state EXCEPT !.overlay = Some([state.overlay[1] EXCEPT
                                                    !.opacity = action.payload]),
                               !.error = NoError]
      [] action.type = "SAVE_CONFIG" ->
            LET existingConfigIndex == findIndex(state.savedConfigs, action.payload.id)
            IN  [state EXCEPT !.savedConfigs =
                                IF existingConfigIndex >= 1
                                THEN [@ EXCEPT ![existingConfigIndex] = action.payload]
                                ELSE Append(@, action.payload),
                              !.error = NoError]
      [] action.type = "LOAD_CONFIG" ->
            [state EXCEPT !.currentPDF = Some(action.payload.pdfFile),
                          !.referencePoints = action.payload.referencePoints,
                          !.overlay = Some(action.payload),
                          !.currentStep = OVERLAY_ADJUSTMENT,
                          !.error = NoError]
      [] action.type = "DELETE_CONFIG" ->
            [state EXCEPT !.savedConfigs = SelectSeq(@, LAMBDA config : config.id # action.payload),
                          !.error = NoError]
      [] action.type = "LOAD_SAVED_CONFIGS" ->
            [state EXCEPT !.savedConfigs = action.payload, !.error = NoError]
      [] action.type = "CLEAR_ALL_CONFIGS" ->
            [state EXCEPT !.savedConfigs = <<>>, !.error = NoError]
      [] action.type = "SET_ERROR" ->
            [state EXCEPT !.error = action.payload]
      [] action.type = "TOGGLE_PANEL_VISIBILITY" -> togglePanelVisibility(state)
      [] action.type = "RESET_STATE" ->
            [initialState EXCEPT !.savedConfigs = state.savedConfigs]
      [] OTHER -> state

\* the actions after which state.overlay is a new object
MakesNewOverlay(state, action) ==
    \/ action.type = "SET_OVERLAY"
    \/ action.type \in {"UPDATE_OVERLAY_POSITION", "UPDATE_OVERLAY_OPACITY"}
        /\ state.overlay # Null

(***************************************************************************)
(* components/GoogleMapComponent.tsx: the effects, run in the order of     *)
(* their declaration after a render in which one of their dependencies     *)
(* changed.  c is the component: its state, its refs, the async functions  *)
(* it has started, and in raised the message handed to onOverlayError.     *)
(***************************************************************************)
\* new google.maps.LatLngBounds(LatLng(south, west), LatLng(north, east))
LatLngBounds(south, west, north, east) ==
    [north |-> north, south |-> south, east |-> east, west |-> west]

\* a started createOverlay() with what its closure captured; stage is the
\* await it is suspended at
CreateTask(file, pdf, map, m) ==
    [kind |-> "create", stage |-> "image", pdfFile |-> file, pdfPoints |-> pdf,
     referencePoints |-> map, transformMatrix |-> m, geoBounds |-> Null, overlay |-> Null]

\* a started displaySavedOverlay() with the overlay its closure captured
DisplayTask(o) ==
    [kind |-> "display", stage |-> "image", pdfFile |-> Null, pdfPoints |-> <<>>,
     referencePoints |-> <<>>, transformMatrix |-> Null, geoBounds |-> Null,
     overlay |-> Some(o)]

\* displaySavedOverlay up to its first await
DisplaySavedOverlayEffect(c, props) ==
    IF props.overlay = Null \/ c.overlayCreatedRef THEN c
    ELSE [c EXCEPT !.isLoading = TRUE,
                   !.mapError = NoError,
                   !.overlayCreatedRef = TRUE,
                   !.tasks = @ \cup {DisplayTask(props.overlay[1])}]

\* createOverlay going on with a zero transform when calculateTransformMatrix threw
CreateOverlayStartedWithDefault(c, props, r) ==
    [c EXCEPT !.isLoading = TRUE,
              !.mapError = NoError,
              !.overlayCreatedRef = TRUE,
              !.tasks = @ \cup {CreateTask(props.pdfFile, props.pdfPoints,
                                           props.referencePoints,
                                           IF r.thrown # NoError
                                           THEN Some([a |-> Num(0), b |-> Num(0), c |-> Num(0),
                                                      d |-> Num(0), e |-> Num(0), f |-> Num(0)])
                                           ELSE r.matrix)}]

\* createOverlay from the call of calculateTransformMatrix, which returned or
\* threw r, up to its first await
CreateOverlayStarted(c, props, r) ==
    IF r.thrown # NoError
    THEN [c EXCEPT !.isLoading = FALSE,
                   !.overlayCreatedRef = FALSE,
                   !.mapError = r.thrown,
                   !.raised = Some(r.thrown)]
    ELSE [c EXCEPT !.isLoading = TRUE,
                   !.mapError = NoError,
                   !.overlayCreatedRef = TRUE,
                   !.tasks = @ \cup {CreateTask(props.pdfFile, props.pdfPoints,
                                                props.referencePoints, r.matrix)}]

\* createOverlay up to its first await
CreateOverlayEffect(c, props) ==
    IF \/ props.pdfFile = Null
       \/ Len(props.pdfPoints) # 3
       \/ Len(props.referencePoints) # 3
       \/ c.overlayCreatedRef
       \/ props.overlay # Null
    THEN c
    ELSE CreateOverlayStarted(c, props,
            calculateTransformMatrix(props.pdfPoints, props.referencePoints))

\* the effect on [pdfFile]
PdfFileChangedEffect(c) ==
    [c EXCEPT !.overlayCreatedRef = FALSE,
              !.overlayImageUrl = Null,
              !.overlayBounds = Null,
              !.originalBoundsRef = Null]

\* the effect on [overlay?.id]
OverlayIdChangedEffect(c) == [c EXCEPT !.overlayCreatedRef = FALSE]

\* the effect on [overlay?.position.center.lat, overlay?.position.center.lng]
PositionUpdateEffect(c, props) ==
    IF props.overlay # Null /\ c.originalBoundsRef # Null
    THEN LET originalBounds == c.originalBoundsRef[1]
             newCenter == props.overlay[1].position.center
             latSpan == Minus(originalBounds.north, originalBounds.south)
             lngSpan == Minus(originalBounds.east, originalBounds.west)
         IN  [c EXCEPT !.overlayBounds =
                Some(LatLngBounds(Minus(newCenter.lat, Over(latSpan, Num(2))),
                                  Minus(newCenter.lng, Over(lngSpan, Num(2))),
                                  Plus(newCenter.lat, Over(latSpan, Num(2))),
                                  Plus(newCenter.lng, Over(lngSpan, Num(2)))))]
    ELSE c

Props(state) ==
    [pdfFile |-> state.currentPDF,
     pdfPoints |-> state.referencePoints.pdf,
     referencePoints |-> state.referencePoints.map,
     overlay |-> state.overlay]

OverlayId(o) == IF o = Null THEN 0 ELSE o[1].id
OverlayCenter(o) == IF o = Null THEN Null ELSE Some(o[1].position.center)

\* each effect runs when one of its dependencies changed in the render
OnOverlay(c, old, new, newOverlayObject) ==
    IF newOverlayObject \/ old.overlay # new.overlay
    THEN DisplaySavedOverlayEffect(c, Props(new)) ELSE c

\* createOverlay's effect run after every render, whatever changed
OnEveryRender(c, old, new) == CreateOverlayEffect(c, Props(new))

OnPdfFileOrPoints(c, old, new) ==
    IF \/ old.currentPDF # new.currentPDF
       \/ old.referencePoints.pdf # new.referencePoints.pdf
       \/ old.referencePoints.map # new.referencePoints.map
    THEN CreateOverlayEffect(c, Props(new)) ELSE c

OnPdfFile(c, old, new) ==
    IF old.currentPDF # new.currentPDF THEN PdfFileChangedEffect(c) ELSE c

OnOverlayId(c, old, new) ==
    IF OverlayId(old.overlay) # OverlayId(new.overlay) THEN OverlayIdChangedEffect(c) ELSE c

OnOverlayCenter(c, old, new) ==
    IF OverlayCenter(old.overlay) # OverlayCenter(new.overlay)
    THEN PositionUpdateEffect(c, Props(new)) ELSE c

\* the effects of the render that follows the change from state old to state
\* new, in the order of their declaration
RunEffects(c, old, new, newOverlayObject) ==
    OnOverlayCenter(
        OnOverlayId(
            OnPdfFile(
                OnPdfFileOrPoints(
                    OnOverlay(c, old, new, newOverlayObject),
                    old, new),
                old, new),
            old, new),
        old, new)

State ==
    [currentPDF |-> currentPDF, referencePoints |-> referencePoints,
     currentStep |-> currentStep, overlay |-> overlay, savedConfigs |-> savedConfigs,
     error |-> error, isPanelVisible |-> isPanelVisible]

Component ==
    [isLoading |-> isLoading, mapError |-> mapError, overlayImageUrl |-> overlayImageUrl,
     overlayBounds |-> overlayBounds, overlayCreatedRef |-> overlayCreatedRef,
     originalBoundsRef |-> originalBoundsRef, tasks |-> tasks, raised |-> Null]

\* the application state and the component after a render
Commit(state, c) ==
    /\ currentPDF' = state.currentPDF
    /\ referencePoints' = state.referencePoints
    /\ currentStep' = state.currentStep
    /\ overlay' = state.overlay
    /\ savedConfigs' = state.savedConfigs
    /\ error' = state.error
    /\ isPanelVisible' = state.isPanelVisible
    /\ isLoading' = c.isLoading
    /\ mapError' = c.mapError
    /\ overlayImageUrl' = c.overlayImageUrl
    /\ overlayBounds' = c.overlayBounds
    /\ overlayCreatedRef' = c.overlayCreatedRef
    /\ originalBoundsRef' = c.originalBoundsRef
    /\ tasks' = c.tasks

\* handleOverlayError: the SET_ERROR dispatched when an effect called onOverlayError
Rendered(new, after) ==
    Commit(IF after.raised = Null THEN new
           ELSE applicationReducer(new, [type |-> "SET_ERROR", payload |-> after.raised[1]]),
           after)

\* the render of state new, reached from the current state, and its effects
Render(c, new, newOverlayObject) ==
    Rendered(new, RunEffects(c, State, new, newOverlayObject))

\* dispatch(action) with the component in state c
Dispatch(c, action) ==
    Render(c, applicationReducer(State, action), MakesNewOverlay(State, action))

\* the state after the first render: no effect does anything
(***************************************************************************)
(* components/ErrorNotification.tsx.  n is the component: its props        *)
(* autoHide and autoHideDelay, its state, timer for the pending auto-hide  *)
(* timeout of the effect, and closing for the number of pending 300 ms     *)
(* timeouts of handleDismiss.  The prop error is state.error.              *)
(***************************************************************************)
\* the effect on [error, autoHide, autoHideDelay], after the cleanup of the
\* effect before it, which clears the auto-hide timeout
ErrorEffect(n, e) ==
    IF e # NoError
    THEN [n EXCEPT !.isVisible = TRUE,
                   !.isAnimating = TRUE,
                   !.timer = n.autoHide /\ n.autoHideDelay > 0]
    ELSE [n EXCEPT !.isVisible = FALSE, !.isAnimating = FALSE, !.timer = FALSE]

\* the component after its first render with error = null
Mounted(autoHide, autoHideDelay) ==
    [autoHide |-> autoHide, autoHideDelay |-> autoHideDelay,
     isVisible |-> FALSE, isAnimating |-> FALSE, timer |-> FALSE, closing |-> 0,
     closingFor |-> <<>>]

handleDismiss(n) == [n EXCEPT !.isAnimating = FALSE, !.closing = @ + 1]

\* the component as App.tsx renders it
NotificationInit == notification = Mounted(TRUE, 7000)

\* the storage before anything is saved
StorageInit ==
    /\ backend = "localStorage"
    /\ stored = Null

\* the provider outside the specifications that follow its effects
Unmounted ==
    [load |-> "none", timeouts |-> <<>>, transactions |-> <<>>, session |-> <<>>,
     changes |-> 0]

\* utils/pdfToImage.ts as the module is loaded: an empty cache, nothing in flight
ModuleLoaded == [documentCache |-> <<>>, totalMemoryUsage |-> 0, calls |-> {}, started |-> 0]

AppInit ==
    /\ currentPDF = initialState.currentPDF
    /\ referencePoints = initialState.referencePoints
    /\ currentStep = initialState.currentStep
    /\ overlay = initialState.overlay
    /\ savedConfigs = initialState.savedConfigs
    /\ error = initialState.error
    /\ isPanelVisible = initialState.isPanelVisible
    /\ isLoading = FALSE
    /\ mapError = NoError
    /\ overlayImageUrl = Null
    /\ overlayBounds = Null
    /\ overlayCreatedRef = FALSE
    /\ originalBoundsRef = Null
    /\ tasks = {}
    /\ nextId = 0
    /\ moves = 0
    /\ provider = Unmounted
    /\ pdfToImage = ModuleLoaded

(***************************************************************************)
(* The engine as a state machine: one call of calculateTransformMatrix,    *)
(* whose solveLinearSystem is shown one pivot column at a time, and then   *)
(* calls of the other exported functions on the matrix it returned.        *)
(***************************************************************************)
Init ==
    /\ pdfPoints \in SeqsUpTo(PdfPool, MaxLen) \cup [1..3 -> TinyPdfPool]
    /\ mapPoints \in SeqsUpTo(MapPool, MaxLen)
    /\ pc = "start"
    /\ augmented = <<>>
    /\ col = 0
    /\ pivotSeen = Null
    /\ solution = <<>>
    /\ matrix = Null
    /\ thrown = NoError
    /\ query = NoQuery
    /\ answer = Null
    /\ AppInit
    /\ StorageInit
    /\ NotificationInit

\* calculateTransformMatrix up to the call of solveLinearSystem
CalculateTransformMatrix ==
    /\ pc = "start"
    /\ IF InsufficientPoints(pdfPoints, mapPoints)
       THEN /\ thrown' = "insufficient"
            /\ pc' = "failed"
            /\ UNCHANGED <<augmented, col>>
       ELSE /\ augmented' = AugmentedSystem(CoefficientMatrix(pdfPoints), ResultVector(mapPoints))
            /\ col' = 1
            /\ pc' = "eliminate"
            /\ UNCHANGED thrown
    /\ UNCHANGED <<pdfPoints, mapPoints, pivotSeen, solution, matrix, query, answer>>
    /\ UNCHANGED <<appVars, mapVars, storageVars, notification, serviceVars>>

\* one iteration of the forward elimination of solveLinearSystem
ForwardElimination ==
    /\ pc = "eliminate"
    /\ LET maxRow == SelectPivot(augmented, col, col + 1, col)
           swapped == SwapRows(augmented, col, maxRow)
       IN  /\ pivotSeen' = Some(swapped[col][col])
           /\ IF SingularPivot(swapped[col][col])
              THEN /\ thrown' = "degenerate"
                   /\ pc' = "failed"
                   /\ augmented' = swapped
                   /\ UNCHANGED col
              ELSE /\ augmented' = Eliminate(swapped, col)
                   /\ col' = col + 1
                   /\ pc' = IF col = Len(augmented) THEN "back" ELSE "eliminate"
                   /\ UNCHANGED thrown
    /\ UNCHANGED <<pdfPoints, mapPoints, solution, matrix, query, answer>>
    /\ UNCHANGED <<appVars, mapVars, storageVars, notification, serviceVars>>

\* the back substitution of solveLinearSystem and the return of calculateTransformMatrix
BackSubstitution ==
    /\ pc = "back"
    /\ LET n == Len(augmented)
           sol == BackSubstitute(augmented, [j \in 1..n |-> Num(0)], n)
       IN  /\ solution' = sol
           /\ matrix' = Some(ToMatrix(sol))
    /\ pc' = "done"
    /\ UNCHANGED <<pdfPoints, mapPoints, augmented, col, pivotSeen, thrown, query, answer>>
    /\ UNCHANGED <<appVars, mapVars, storageVars, notification, serviceVars>>

TransformPDFToGeo ==
    /\ pc = "done"
    /\ query = NoQuery
    /\ \E p \in PointPool \cup {pdfPoints[i] : i \in 1..Len(pdfPoints)} :
        /\ query' = [op |-> "transformPDFToGeo", arg |-> Some(p), from |-> Null]
        /\ answer' = Some(transformPDFToGeo(p, matrix[1]))
    /\ thrown' = NoError
    /\ UNCHANGED <<pdfPoints, mapPoints, pc, augmented, col, pivotSeen, solution, matrix>>
    /\ UNCHANGED <<appVars, mapVars, storageVars, notification, serviceVars>>

\* the determinant check of transformGeoToPDF
NonInvertible(m) == BelowEpsilon(MathAbs(Determinant(m)))

\* transformGeoToPDF, of a geo point of the pool or of the point transformPDFToGeo just returned
TransformGeoToPDF ==
    /\ pc = "done"
    /\ \E fromForward \in BOOLEAN :
        /\ query.op = (IF fromForward THEN "transformPDFToGeo" ELSE "none")
        /\ \E g \in (IF fromForward THEN {answer[1]} ELSE GeoPool) :
            /\ query' = [op |-> "transformGeoToPDF", arg |-> Some(g),
                         from |-> IF fromForward THEN query.arg ELSE Null]
            /\ IF NonInvertible(matrix[1])
               THEN thrown' = "noninvertible" /\ answer' = Null
               ELSE thrown' = NoError /\ answer' = Some(transformGeoToPDF(g, matrix[1]))
    /\ UNCHANGED <<pdfPoints, mapPoints, pc, augmented, col, pivotSeen, solution, matrix>>
    /\ UNCHANGED <<appVars, mapVars, storageVars, notification, serviceVars>>

TransformPDFBoundsToGeoBounds ==
    /\ pc = "done"
    /\ query = NoQuery
    /\ \E r \in RectPool :
        /\ query' = [op |-> "transformPDFBoundsToGeoBounds", arg |-> Some(r), from |-> Null]
        /\ answer' = Some(transformPDFBoundsToGeoBounds(r, matrix[1]))
    /\ thrown' = NoError
    /\ UNCHANGED <<pdfPoints, mapPoints, pc, augmented, col, pivotSeen, solution, matrix>>
    /\ UNCHANGED <<appVars, mapVars, storageVars, notification, serviceVars>>

\* updateOverlayPosition on the bounds transformPDFBoundsToGeoBounds returned
UpdateOverlayPosition ==
    /\ pc = "done"
    /\ query.op = "transformPDFBoundsToGeoBounds"
    /\ \E c \in GeoPool \cup MapPool :
        /\ query' = [op |-> "updateOverlayPosition", arg |-> Some(c), from |-> answer]
        /\ answer' = Some(updateOverlayPosition(answer[1], c))
    /\ thrown' = NoError
    /\ UNCHANGED <<pdfPoints, mapPoints, pc, augmented, col, pivotSeen, solution, matrix>>
    /\ UNCHANGED <<appVars, mapVars, storageVars, notification, serviceVars>>

Next ==
    \/ CalculateTransformMatrix
    \/ ForwardElimination
    \/ BackSubstitution
    \/ TransformPDFToGeo
    \/ TransformGeoToPDF
    \/ TransformPDFBoundsToGeoBounds
    \/ UpdateOverlayPosition

Spec == Init /\ [][Next]_vars

(***************************************************************************)
(* The application as a state machine: the user's operations on App.tsx    *)
(* and its panels, and the continuations of the async functions that       *)
(* GoogleMapComponent's effects start.  The transform engine is called as  *)
(* an operator, its step-wise variables stay as they are.                  *)
(***************************************************************************)
InitOverlay ==
    /\ pdfPoints = <<>>
    /\ mapPoints = <<>>
    /\ pc = "start"
    /\ augmented = <<>>
    /\ col = 0
    /\ pivotSeen = Null
    /\ solution = <<>>
    /\ matrix = Null
    /\ thrown = NoError
    /\ query = NoQuery
    /\ answer = Null
    /\ AppInit
    /\ StorageInit
    /\ NotificationInit

\* the dispatches of one event handler, reduced in their order before the render
RECURSIVE DispatchAll(_, _)
DispatchAll(state, actions) ==
    IF actions = <<>> THEN state
    ELSE DispatchAll(applicationReducer(state, Head(actions)), Tail(actions))

\* PDFUploader -> handleFileSelect
HandleFileSelect ==
    /\ currentStep = PDF_UPLOAD
    /\ \E file \in FilePool : Dispatch(Component, [type |-> "SET_PDF", payload |-> file])
    /\ UNCHANGED <<engineVars, storageVars, notification, serviceVars, nextId, moves>>

\* PDFViewer click -> handlePDFPointSelect
HandlePDFPointSelect ==
    /\ currentStep # PDF_UPLOAD
    /\ currentStep >= REFERENCE_POINT_1 /\ currentStep <= REFERENCE_POINT_3
    /\ Len(referencePoints.pdf) <= currentStep - REFERENCE_POINT_1
    /\ \E p \in ClickPdfPool : Dispatch(Component, [type |-> "ADD_PDF_POINT", payload |-> p])
    /\ UNCHANGED <<engineVars, storageVars, notification, serviceVars, nextId, moves>>

\* map click -> handleMapClick; the map is not rendered while the component shows its error
HandleMapClick ==
    /\ mapError = NoError
    /\ currentStep >= REFERENCE_POINT_1 /\ currentStep <= REFERENCE_POINT_3
    /\ Len(referencePoints.pdf) > currentStep - REFERENCE_POINT_1
    /\ Len(referencePoints.map) <= currentStep - REFERENCE_POINT_1
    /\ \E g \in ClickMapPool : Dispatch(Component, [type |-> "ADD_MAP_POINT", payload |-> g])
    /\ UNCHANGED <<engineVars, storageVars, notification, serviceVars, nextId, moves>>

\* ReferencePointManager, shown in the three reference point steps
ManagerShown == currentStep >= REFERENCE_POINT_1 /\ currentStep <= REFERENCE_POINT_3

HandleReset ==
    /\ ManagerShown
    /\ ~(Len(referencePoints.pdf) = 0 /\ Len(referencePoints.map) = 0)
    /\ Dispatch(Component, [type |-> "CLEAR_REFERENCE_POINTS", payload |-> Null])
    /\ UNCHANGED <<engineVars, storageVars, notification, serviceVars, nextId, moves>>

HandleNextStep ==
    /\ ManagerShown
    /\ Len(referencePoints.pdf) > currentStep - REFERENCE_POINT_1
    /\ Len(referencePoints.map) > currentStep - REFERENCE_POINT_1
    /\ IF Len(referencePoints.pdf) = 3 /\ Len(referencePoints.map) = 3
       THEN Dispatch(Component, [type |-> "SET_CURRENT_STEP", payload |-> OVERLAY_CREATION])
       ELSE Dispatch(Component, [type |-> "NEXT_STEP", payload |-> Null])
    /\ UNCHANGED <<engineVars, storageVars, notification, serviceVars, nextId, moves>>

HandlePreviousStep ==
    /\ ManagerShown
    /\ currentStep > REFERENCE_POINT_1
    /\ Dispatch(Component, [type |-> "PREVIOUS_STEP", payload |-> Null])
    /\ UNCHANGED <<engineVars, storageVars, notification, serviceVars, nextId, moves>>

\* Array.prototype.filter((_, i) => i !== index), index 1-based
WithoutIndex(points, index) ==
    [i \in 1..(Len(points) - (IF index <= Len(points) THEN 1 ELSE 0)) |->
        IF i < index THEN points[i] ELSE points[i + 1]]

\* the dispatches of handleRemovePoint(index)
RemovePointActions(pdf, map, index) ==
    LET newPdfPoints == WithoutIndex(pdf, index)
        newMapPoints == WithoutIndex(map, index)
        newStep == MathMaxInt(REFERENCE_POINT_1, REFERENCE_POINT_1 + Len(newPdfPoints))
    IN  <<[type |-> "CLEAR_REFERENCE_POINTS", payload |-> Null]>>
        \o [i \in 1..Len(newPdfPoints) |->
                [type |-> "ADD_PDF_POINT", payload |-> newPdfPoints[i]]]
        \o [i \in 1..Len(newMapPoints) |->
                [type |-> "ADD_MAP_POINT", payload |-> newMapPoints[i]]]
        \o <<[type |-> "SET_CURRENT_STEP", payload |-> newStep]>>

\* the remove button of a pair, shown when both of its points are set
HandleRemovePoint ==
    /\ ManagerShown
    /\ \E index \in 1..3 :
        /\ index <= Len(referencePoints.pdf) /\ index <= Len(referencePoints.map)
        /\ Render(Component,
                  DispatchAll(State, RemovePointActions(referencePoints.pdf,
                                                        referencePoints.map, index)),
                  FALSE)
    /\ UNCHANGED <<engineVars, storageVars, notification, serviceVars, nextId, moves>>

\* OverlayControls, shown in the adjustment step when there is an overlay
ControlsShown == currentStep = OVERLAY_ADJUSTMENT /\ overlay # Null

HandleFineTuning ==
    /\ ControlsShown
    /\ moves < MaxMoves
    /\ \E nudge \in NudgePool :
        LET direction == nudge[1]
            amount == nudge[2]
            currentLat == overlay[1].position.center.lat
            currentLng == overlay[1].position.center.lng
            newLat == CASE direction = "north" -> Plus(currentLat, amount)
                        [] direction = "south" -> Minus(currentLat, amount)
                        [] OTHER -> currentLat
            newLng == CASE direction = "east" -> Plus(currentLng, amount)
                        [] direction = "west" -> Minus(currentLng, amount)
                        [] OTHER -> currentLng
        IN  Dispatch(Component, [type |-> "UPDATE_OVERLAY_POSITION",
                                 payload |-> [lat |-> newLat, lng |-> newLng]])
    /\ moves' = moves + 1
    /\ UNCHANGED <<engineVars, storageVars, notification, serviceVars, nextId>>

HandleOpacityChange ==
    /\ ControlsShown
    /\ \E newOpacity \in OpacityPool :
        Dispatch(Component, [type |-> "UPDATE_OVERLAY_OPACITY", payload |-> newOpacity])
    /\ UNCHANGED <<engineVars, storageVars, notification, serviceVars, nextId, moves>>

\* the GroundOverlay of the current overlay is in the render
GroundOverlayRendered == overlayImageUrl # Null /\ overlayBounds # Null

\* its opacity prop, overlay?.opacity || 0.7: the number 0 is falsy
GroundOverlayOpacity ==
    IF overlay # Null /\ overlay[1].opacity.n # 0 THEN overlay[1].opacity ELSE Rat(7, 10)

\* createOverlay after generateHighQualityPDFImage and getPDFPageSize resolved
CreateOverlayRendered ==
    \E t \in tasks :
        /\ t.kind = "create" /\ t.stage = "image"
        /\ LET geoBounds == transformPDFBoundsToGeoBounds(
                                [minX |-> Num(0), minY |-> Num(0),
                                 maxX |-> t.pdfFile[1].width, maxY |-> t.pdfFile[1].height],
                                t.transformMatrix[1])
               bounds == LatLngBounds(geoBounds.south, geoBounds.west,
                                      geoBounds.north, geoBounds.east)
           IN  /\ overlayImageUrl' = Some(t.pdfFile[1].name)
               /\ overlayBounds' = Some(bounds)
               /\ originalBoundsRef' = Some(bounds)
               /\ tasks' = (tasks \ {t}) \cup
                           {[t EXCEPT !.stage = "buffer", !.geoBounds = Some(geoBounds)]}
        /\ UNCHANGED <<engineVars, storageVars, notification, serviceVars, appVars, isLoading, mapError, overlayCreatedRef,
                       nextId, moves>>

\* createOverlay after pdfFile.arrayBuffer() resolved: onOverlayCreated(config)
CreateOverlayFinished ==
    \E t \in tasks :
        /\ t.kind = "create" /\ t.stage = "buffer"
        /\ LET geoBounds == t.geoBounds[1]
               config ==
                   [id |-> nextId + 1,
                    pdfFile |-> t.pdfFile[1],
                    referencePoints |-> [pdf |-> t.pdfPoints, map |-> t.referencePoints],
                    bounds |-> [north |-> geoBounds.north, south |-> geoBounds.south,
                                east |-> geoBounds.east, west |-> geoBounds.west],
                    position |-> [center |->
                        [lat |-> Over(Plus(geoBounds.north, geoBounds.south), Num(2)),
                         lng |-> Over(Plus(geoBounds.east, geoBounds.west), Num(2))]],
                    opacity |-> Rat(7, 10)]
           IN  Dispatch([Component EXCEPT !.isLoading = FALSE, !.tasks = @ \ {t}],
                        [type |-> "SET_OVERLAY", payload |-> config])
        /\ nextId' = nextId + 1
        /\ UNCHANGED <<engineVars, storageVars, notification, serviceVars, moves>>

\* createOverlay when one of its awaits rejected
CreateOverlayRejected ==
    \E t \in tasks :
        /\ t.kind = "create"
        /\ Dispatch([Component EXCEPT !.isLoading = FALSE,
                                      !.overlayCreatedRef = FALSE,
                                      !.mapError = "image",
                                      !.tasks = @ \ {t}],
                    [type |-> "SET_ERROR", payload |-> "image"])
        /\ UNCHANGED <<engineVars, storageVars, notification, serviceVars, nextId, moves>>

\* displaySavedOverlay after generateHighQualityPDFImage resolved
DisplaySavedOverlayResolved ==
    \E t \in tasks :
        /\ t.kind = "display"
        /\ LET bounds == LatLngBounds(t.overlay[1].bounds.south, t.overlay[1].bounds.west,
                                      t.overlay[1].bounds.north, t.overlay[1].bounds.east)
           IN  /\ overlayImageUrl' = Some(t.overlay[1].pdfFile.name)
               /\ overlayBounds' = Some(bounds)
               /\ originalBoundsRef' = Some(bounds)
        /\ isLoading' = FALSE
        /\ tasks' = tasks \ {t}
        /\ UNCHANGED <<engineVars, storageVars, notification, serviceVars, appVars, mapError, overlayCreatedRef, nextId, moves>>

\* displaySavedOverlay when generateHighQualityPDFImage rejected
DisplaySavedOverlayRejected ==
    \E t \in tasks :
        /\ t.kind = "display"
        /\ Dispatch([Component EXCEPT !.isLoading = FALSE,
                                      !.overlayCreatedRef = FALSE,
                                      !.mapError = "image",
                                      !.tasks = @ \ {t}],
                    [type |-> "SET_ERROR", payload |-> "image"])
        /\ UNCHANGED <<engineVars, storageVars, notification, serviceVars, nextId, moves>>

NextOverlay ==
    \/ HandleFileSelect
    \/ HandlePDFPointSelect
    \/ HandleMapClick
    \/ HandleReset
    \/ HandleNextStep
    \/ HandlePreviousStep
    \/ HandleRemovePoint
    \/ HandleFineTuning
    \/ HandleOpacityChange
    \/ CreateOverlayRendered
    \/ CreateOverlayFinished
    \/ CreateOverlayRejected
    \/ DisplaySavedOverlayResolved
    \/ DisplaySavedOverlayRejected

SpecOverlay == InitOverlay /\ [][NextOverlay]_vars

\* a user who wants other reference points: the reset button is pressed when
\* it stays available
FairSpecOverlay == SpecOverlay /\ WF_vars(HandleReset)

(***************************************************************************)
(* The application with the header button that opens and closes the panel  *)
(* (the App component with state.isPanelVisible).  Its handlers are the    *)
(* ones above; the sidebar and the PDF section take no click while the     *)
(* panel is hidden, the map does.  The adjustment controls are those of    *)
(* the application above and are left out here.                            *)
(***************************************************************************)
\* bound on the number of overlays, created or being created, beyond which the
\* user uploads no further file
MaxOverlays == 1

PanelShown == isPanelVisible

\* the header button: closing the panel clears the PDF, then the panel is toggled
HandleTogglePanel ==
    /\ Render(Component,
              DispatchAll(State,
                  (IF isPanelVisible THEN <<[type |-> "CLEAR_PDF", payload |-> Null]>>
                   ELSE <<>>)
                  \o <<[type |-> "TOGGLE_PANEL_VISIBILITY", payload |-> Null]>>),
              FALSE)
    /\ UNCHANGED <<engineVars, storageVars, notification, serviceVars, nextId, moves>>

PanelFileSelect ==
    /\ PanelShown
    /\ nextId + Cardinality(tasks) < MaxOverlays
    /\ HandleFileSelect

PanelPDFPointSelect == PanelShown /\ HandlePDFPointSelect
PanelMapClick == HandleMapClick
PanelReset == PanelShown /\ HandleReset
PanelNextStep == PanelShown /\ HandleNextStep
PanelPreviousStep == PanelShown /\ HandlePreviousStep
PanelRemovePoint == PanelShown /\ HandleRemovePoint

NextPanel ==
    \/ HandleTogglePanel
    \/ PanelFileSelect
    \/ PanelPDFPointSelect
    \/ PanelMapClick
    \/ PanelReset
    \/ PanelNextStep
    \/ PanelPreviousStep
    \/ PanelRemovePoint
    \/ CreateOverlayRendered
    \/ CreateOverlayFinished
    \/ CreateOverlayRejected
    \/ DisplaySavedOverlayResolved
    \/ DisplaySavedOverlayRejected

SpecPanel == InitOverlay /\ [][NextPanel]_vars

(***************************************************************************)
(* The store as a state machine: store/context.tsx hands the dispatch of   *)
(* useReducer(applicationReducer, initialState) to every component         *)
(* (useApplicationDispatch), so a state of the store is whatever the       *)
(* reducer makes of a sequence of ApplicationAction values.  The actions   *)
(* on the PDF, the overlay, the saved configs and the error are dispatched *)
(* here with payloads of their declared types; the point and step actions  *)
(* are the ones of the application above.                                  *)
(***************************************************************************)
\* bound on the ids of the OverlayConfig payloads
MaxConfigs == 2

\* an OverlayConfig payload (types/index.ts): two configs of one id differ in opacity
StoredConfig(id, opacity) ==
    [id |-> id,
     pdfFile |-> [name |-> "a.pdf", width |-> Num(2), height |-> Num(2)],
     referencePoints |-> [pdf |-> <<PDFPoint(0, 0), PDFPoint(2, 0), PDFPoint(1, 1)>>,
                          map |-> <<MapPoint(0, 0), MapPoint(1, 0), MapPoint(0, 2)>>],
     bounds |-> [north |-> Num(2), south |-> Num(0), east |-> Num(1), west |-> Num(0)],
     position |-> [center |-> [lat |-> Num(1), lng |-> Rat(1, 2)]],
     opacity |-> opacity]

ConfigPool == {StoredConfig(id, o) : id \in 1..MaxConfigs, o \in {Rat(7, 10), Rat(1, 2)}}
\* the lists LOAD_SAVED_CONFIGS carries: what loadConfigs read, one config per id
ConfigListPool ==
    {l \in SeqsUpTo({StoredConfig(id, Rat(7, 10)) : id \in 1..MaxConfigs}, MaxConfigs) :
        \A i, j \in 1..Len(l) : l[i].id = l[j].id => i = j}
\* the overlay createOverlay hands to SET_OVERLAY, and the config picked for LOAD_CONFIG
OverlayPayloadPool == {StoredConfig(1, Rat(7, 10))}
\* payloads of UPDATE_OVERLAY_OPACITY: any number
OpacityPayloadPool == {Rat(0 - 1, 2), Num(0), Num(1), Rat(3, 2)}
\* payloads of UPDATE_OVERLAY_POSITION
CenterPayloadPool == {[lat |-> Num(1), lng |-> Rat(1, 2)], [lat |-> Num(0), lng |-> Num(0)]}

\* dispatch(action) on the store alone; query keeps the type of the action
\* and, of a SAVE_CONFIG, the action and the savedConfigs it was dispatched on
Reduce(action) ==
    /\ Commit(applicationReducer(State, action), Component)
    /\ query' = IF action.type = "SAVE_CONFIG"
                THEN [op |-> action.type, arg |-> Some(action), from |-> Some(savedConfigs)]
                ELSE [op |-> action.type, arg |-> Null, from |-> Null]
    /\ UNCHANGED <<pdfPoints, mapPoints, pc, augmented, col, pivotSeen, solution, matrix,
                   thrown, answer>>

InitStore == InitOverlay

DispatchSetPdf ==
    /\ \E file \in FilePool : Reduce([type |-> "SET_PDF", payload |-> file])
    /\ UNCHANGED <<storageVars, notification, serviceVars, nextId, moves>>

DispatchClearPdf ==
    /\ Reduce([type |-> "CLEAR_PDF"])
    /\ UNCHANGED <<storageVars, notification, serviceVars, nextId, moves>>

DispatchSetOverlay ==
    /\ \E config \in OverlayPayloadPool : Reduce([type |-> "SET_OVERLAY", payload |-> config])
    /\ UNCHANGED <<storageVars, notification, serviceVars, nextId, moves>>

DispatchUpdateOverlayPosition ==
    /\ \E center \in CenterPayloadPool :
        Reduce([type |-> "UPDATE_OVERLAY_POSITION", payload |-> center])
    /\ UNCHANGED <<storageVars, notification, serviceVars, nextId, moves>>

DispatchUpdateOverlayOpacity ==
    /\ \E opacity \in OpacityPayloadPool :
        Reduce([type |-> "UPDATE_OVERLAY_OPACITY", payload |-> opacity])
    /\ UNCHANGED <<storageVars, notification, serviceVars, nextId, moves>>

DispatchSaveConfig ==
    /\ \E config \in ConfigPool : Reduce([type |-> "SAVE_CONFIG", payload |-> config])
    /\ UNCHANGED <<storageVars, notification, serviceVars, nextId, moves>>

DispatchLoadConfig ==
    /\ \E config \in OverlayPayloadPool : Reduce([type |-> "LOAD_CONFIG", payload |-> config])
    /\ UNCHANGED <<storageVars, notification, serviceVars, nextId, moves>>

DispatchDeleteConfig ==
    /\ \E id \in 1..(MaxConfigs + 1) : Reduce([type |-> "DELETE_CONFIG", payload |-> id])
    /\ UNCHANGED <<storageVars, notification, serviceVars, nextId, moves>>

DispatchLoadSavedConfigs ==
    /\ \E configs \in ConfigListPool :
        Reduce([type |-> "LOAD_SAVED_CONFIGS", payload |-> configs])
    /\ UNCHANGED <<storageVars, notification, serviceVars, nextId, moves>>

DispatchClearAllConfigs ==
    /\ Reduce([type |-> "CLEAR_ALL_CONFIGS"])
    /\ UNCHANGED <<storageVars, notification, serviceVars, nextId, moves>>

DispatchSetError ==
    /\ Reduce([type |-> "SET_ERROR", payload |-> "storage"])
    /\ UNCHANGED <<storageVars, notification, serviceVars, nextId, moves>>

DispatchResetState ==
    /\ Reduce([type |-> "RESET_STATE"])
    /\ UNCHANGED <<storageVars, notification, serviceVars, nextId, moves>>

NextStore ==
    \/ DispatchSetPdf
    \/ DispatchClearPdf
    \/ DispatchSetOverlay
    \/ DispatchUpdateOverlayPosition
    \/ DispatchUpdateOverlayOpacity
    \/ DispatchSaveConfig
    \/ DispatchLoadConfig
    \/ DispatchDeleteConfig
    \/ DispatchLoadSavedConfigs
    \/ DispatchClearAllConfigs
    \/ DispatchSetError
    \/ DispatchResetState

SpecStore == InitStore /\ [][NextStore]_vars

(***************************************************************************)
(* validateTransformAccuracy and calculateDistance.  Angles are in degrees *)
(* and taken from the grid on which the haversine formula has exact        *)
(* values; a distance is given in units of pi metres (R * c with c in      *)
(* radians is R * degrees / 180 times pi).                                 *)
(***************************************************************************)
\* Earth radius in metres
R == 6371000

\* Math.sin(x / 2) * Math.sin(x / 2) for x the radians of deg degrees
SinSquaredHalf(deg) ==
    CASE MathAbs(deg) = Num(0) -> Num(0)
      [] MathAbs(deg) = Num(60) -> Rat(1, 4)
      [] MathAbs(deg) = Num(90) -> Rat(1, 2)
      [] MathAbs(deg) = Num(120) -> Rat(3, 4)
      [] MathAbs(deg) = Num(180) -> Num(1)

\* Math.cos of the radians of deg degrees
MathCos(deg) ==
    CASE MathAbs(deg) = Num(0) -> Num(1)
      [] MathAbs(deg) = Num(60) -> Rat(1, 2)
      [] MathAbs(deg) = Num(90) -> Num(0)

\* 2 * Math.atan2(Math.sqrt(a), Math.sqrt(1 - a)), in degrees
CentralAngle(a) ==
    CASE a = Num(0) -> Num(0)
      [] a = Rat(1, 4) -> Num(60)
      [] a = Rat(1, 2) -> Num(90)
      [] a = Rat(3, 4) -> Num(120)
      [] a = Num(1) -> Num(180)

calculateDistance(point1, point2) ==
    LET a == Plus(SinSquaredHalf(Minus(point2.lat, point1.lat)),
                  Times(Times(MathCos(point1.lat), MathCos(point2.lat)),
                        SinSquaredHalf(Minus(point2.lng, point1.lng))))
    IN  Over(Times(Num(R), CentralAngle(a)), Num(180))

\* totalError after the first i rounds of the loop
RECURSIVE TotalError(_, _, _, _)
TotalError(pdf, map, m, i) ==
    IF i = 0 THEN Num(0)
    ELSE Plus(TotalError(pdf, map, m, i - 1),
              calculateDistance(transformPDFToGeo(pdf[i], m), map[i]))

\* a validator that returns the total error instead of the mean
validateTransformAccuracyTotal(pdf, map, m) ==
    IF Len(pdf) # Len(map)
    THEN [thrown |-> "mismatched", value |-> Null]
    ELSE [thrown |-> NoError, value |-> Some(TotalError(pdf, map, m, Len(pdf)))]

validateTransformAccuracy(pdf, map, m) ==
    IF Len(pdf) # Len(map)
    THEN [thrown |-> "mismatched", value |-> Null]
    ELSE [thrown |-> NoError,
          value |-> Some(Over(TotalError(pdf, map, m, Len(pdf)), Num(Len(pdf))))]

\* points on the grid, and the transforms lng = x + e, lat = y
GridPdfPool == {PDFPoint(0, 0), PDFPoint(0, 90)}
GridMapPool == {MapPoint(0, 120), MapPoint(90, 0)}
GridMatrixPool ==
    {[a |-> Num(1), b |-> Num(0), e |-> Num(e), c |-> Num(0), d |-> Num(1), f |-> Num(0)] :
        e \in {0, 60}}

InitValidate ==
    /\ pdfPoints \in SeqsUpTo(GridPdfPool, MaxLen)
    /\ mapPoints \in SeqsUpTo(GridMapPool, MaxLen)
    /\ matrix \in {Some(m) : m \in GridMatrixPool}
    /\ pc = "start"
    /\ augmented = <<>>
    /\ col = 0
    /\ pivotSeen = Null
    /\ solution = <<>>
    /\ thrown = NoError
    /\ query = NoQuery
    /\ answer = Null
    /\ AppInit
    /\ StorageInit
    /\ NotificationInit

ValidateTransformAccuracy ==
    /\ pc = "start"
    /\ LET r == validateTransformAccuracy(pdfPoints, mapPoints, matrix[1])
       IN  /\ thrown' = r.thrown
           /\ answer' = r.value
           /\ pc' = IF r.thrown # NoError THEN "failed" ELSE "done"
    /\ query' = [op |-> "validateTransformAccuracy", arg |-> Null, from |-> Null]
    /\ UNCHANGED <<pdfPoints, mapPoints, augmented, col, pivotSeen, solution, matrix>>
    /\ UNCHANGED <<appVars, mapVars, storageVars, notification, serviceVars>>

NextValidate == ValidateTransformAccuracy

SpecValidate == InitValidate /\ [][NextValidate]_vars

(***************************************************************************)
(* utils/localStorage.ts and the IndexedDB storage module.  A stored       *)
(* OverlayConfig is given by its id, its name, its pdfFile with the bytes  *)
(* of data, and its two dates.  A Date is its time value in milliseconds,  *)
(* or invalid; a base64 text is the sequence of its 6-bit digits, with Pad *)
(* for the character "="; a JSON text of strings is given by the value it  *)
(* denotes.  localStorage is the item under STORAGE_KEY, the object store  *)
(* is its items in the order of their key id.                              *)
(***************************************************************************)
Pad == 64
MsPerDay == 86400000

\* btoa of the binary string of the bytes
RECURSIVE arrayBufferToBase64(_)
arrayBufferToBase64(bytes) ==
    IF Len(bytes) = 0 THEN <<>>
    ELSE IF Len(bytes) = 1
    THEN <<bytes[1] \div 4, (bytes[1] % 4) * 16, Pad, Pad>>
    ELSE IF Len(bytes) = 2
    THEN <<bytes[1] \div 4, (bytes[1] % 4) * 16 + bytes[2] \div 16, (bytes[2] % 16) * 4, Pad>>
    ELSE <<bytes[1] \div 4, (bytes[1] % 4) * 16 + bytes[2] \div 16,
           (bytes[2] % 16) * 4 + bytes[3] \div 64, bytes[3] % 64>>
         \o arrayBufferToBase64(SubSeq(bytes, 4, Len(bytes)))

\* a decoder that takes the padding for digits: three bytes for every four characters
RECURSIVE base64ToArrayBufferPadded(_)
base64ToArrayBufferPadded(base64) ==
    IF Len(base64) = 0 THEN <<>>
    ELSE LET digit(i) == IF base64[i] = Pad THEN 0 ELSE base64[i]
         IN  <<digit(1) * 4 + digit(2) \div 16,
               (digit(2) % 16) * 16 + digit(3) \div 4,
               (digit(3) % 4) * 64 + digit(4)>>
             \o base64ToArrayBufferPadded(SubSeq(base64, 5, Len(base64)))

\* the char codes of atob of the text
RECURSIVE base64ToArrayBuffer(_)
base64ToArrayBuffer(base64) ==
    IF Len(base64) = 0 THEN <<>>
    ELSE LET first == <<base64[1] * 4 + base64[2] \div 16>>
             second == IF base64[3] = Pad THEN <<>>
                       ELSE <<(base64[2] % 16) * 16 + base64[3] \div 4>>
             third == IF base64[4] = Pad THEN <<>>
                      ELSE <<(base64[3] % 4) * 64 + base64[4]>>
         IN  first \o second \o third \o base64ToArrayBuffer(SubSeq(base64, 5, Len(base64)))

Date(time) == [valid |-> TRUE, time |-> time]
InvalidDate == [valid |-> FALSE, time |-> 0]
\* Date.prototype.toISOString of a valid date: the calendar day and the time of day
toISOString(date) == [day |-> date.time \div MsPerDay, ms |-> date.time % MsPerDay]
\* new Date(text) of an ISO text
NewDate(text) == Date(text.day * MsPerDay + text.ms)

serializeConfig(config) ==
    [config EXCEPT !.pdfFile.data = arrayBufferToBase64(@),
                   !.createdAt = toISOString(@),
                   !.updatedAt = toISOString(@)]

deserializeConfig(serialized) ==
    [serialized EXCEPT !.pdfFile.data = base64ToArrayBuffer(@),
                       !.createdAt = NewDate(@),
                       !.updatedAt = NewDate(@)]

Map(f(_), seq) == [i \in 1..Len(seq) |-> f(seq[i])]

\* toISOString throws a RangeError on an invalid date
DatesValid(config) == config.createdAt.valid /\ config.updatedAt.valid

\* saveConfigs of utils/localStorage.ts; available is what checkStorageCapacity
\* found for the usage of the origin's localStorage, old the item before
saveConfigs(configs, available, old) ==
    IF ~available THEN [thrown |-> "STORAGE_FULL", stored |-> old]
    ELSE IF \E i \in 1..Len(configs) : ~DatesValid(configs[i])
    THEN [thrown |-> "SAVE_FAILED", stored |-> old]
    ELSE [thrown |-> NoError, stored |-> Some(Map(serializeConfig, configs))]

loadConfigs(item) ==
    IF item = Null THEN <<>> ELSE Map(deserializeConfig, item[1])

deleteConfig(configId, available, old) ==
    saveConfigs(SelectSeq(loadConfigs(old), LAMBDA config : config.id # configId),
                available, old)

clearAllConfigs == Null

\* the items of a set with one item per id, in the order of their ids
RECURSIVE InKeyOrder(_)
InKeyOrder(items) ==
    IF items = {} THEN <<>>
    ELSE LET least == CHOOSE x \in items : \A y \in items : x.id <= y.id
         IN  <<least>> \o InKeyOrder(items \ {least})

\* the item saveConfigs of the IndexedDB module hands to store.add
idbItem(config) ==
    [config EXCEPT !.createdAt = toISOString(@), !.updatedAt = toISOString(@)]

\* the first i configs have been added; a config with an invalid date throws
\* out of the loop and the transaction commits what was requested so far, an
\* id that is in the store already fails the add and aborts the transaction
RECURSIVE idbAddFrom(_, _, _, _)
idbAddFrom(configs, i, added, old) ==
    IF i > Len(configs)
    THEN [thrown |-> NoError, stored |-> InKeyOrder(added)]
    ELSE IF ~DatesValid(configs[i])
    THEN [thrown |-> "INDEXEDDB_SAVE_FAILED", stored |-> InKeyOrder(added)]
    ELSE IF \E item \in added : item.id = configs[i].id
    THEN [thrown |-> "INDEXEDDB_SAVE_FAILED", stored |-> old]
    ELSE idbAddFrom(configs, i + 1, added \cup {idbItem(configs[i])}, old)

idbSaveConfigs(configs, old) == idbAddFrom(configs, 1, {}, old)

idbLoadItem(item) == [item EXCEPT !.createdAt = NewDate(@), !.updatedAt = NewDate(@)]

idbLoadConfigs(items) == Map(idbLoadItem, items)

idbDeleteConfig(configId, old) ==
    idbSaveConfigs(SelectSeq(idbLoadConfigs(old), LAMBDA config : config.id # configId), old)

idbClearAllConfigs(old) == idbSaveConfigs(<<>>, old)

\* the configs handed to the storage: two of one id, and one with an invalid date
SavedConfig(id, name, data, createdAt) ==
    [id |-> id, name |-> name, pdfFile |-> [name |-> "a.pdf", data |-> data],
     createdAt |-> createdAt, updatedAt |-> Date(MsPerDay + 1)]
SavedConfigPool ==
    {SavedConfig(2, "a", <<255>>, Date(0)),
     SavedConfig(1, "b", <<0, 77>>, Date(0 - 1)),
     SavedConfig(1, "c", <<251, 252, 253, 254>>, Date(MsPerDay - 1)),
     SavedConfig(3, "d", <<>>, InvalidDate)}

InitStorage ==
    /\ pdfPoints = <<>>
    /\ mapPoints = <<>>
    /\ pc = "start"
    /\ augmented = <<>>
    /\ col = 0
    /\ pivotSeen = Null
    /\ solution = <<>>
    /\ matrix = Null
    /\ thrown = NoError
    /\ query = NoQuery
    /\ answer = Null
    /\ AppInit
    /\ NotificationInit
    /\ backend \in {"localStorage", "indexedDB"}
    /\ stored = Null

Returned(op, arg, r) ==
    /\ query' = [op |-> op, arg |-> arg, from |-> Some(stored)]
    /\ thrown' = r.thrown
    /\ stored' = r.stored
    /\ answer' = Null
    /\ UNCHANGED <<pdfPoints, mapPoints, pc, augmented, col, pivotSeen, solution, matrix,
                   backend, notification, serviceVars>>
    /\ UNCHANGED <<appVars, mapVars>>

SaveConfigs ==
    \E configs \in SeqsUpTo(SavedConfigPool, MaxConfigs) :
        IF backend = "localStorage"
        THEN \E available \in BOOLEAN :
                Returned("saveConfigs", Some(configs), saveConfigs(configs, available, stored))
        ELSE Returned("saveConfigs", Some(configs), idbSaveConfigs(configs, stored))

LoadConfigs ==
    /\ query' = [op |-> "loadConfigs", arg |-> Null, from |-> Some(stored)]
    /\ thrown' = NoError
    /\ answer' = Some(IF backend = "localStorage" THEN loadConfigs(stored)
                      ELSE idbLoadConfigs(stored))
    /\ UNCHANGED <<pdfPoints, mapPoints, pc, augmented, col, pivotSeen, solution, matrix>>
    /\ UNCHANGED <<appVars, mapVars, storageVars, notification, serviceVars>>

DeleteConfig ==
    \E configId \in 1..(MaxConfigs + 2) :
        IF backend = "localStorage"
        THEN \E available \in BOOLEAN :
                Returned("deleteConfig", Some(configId), deleteConfig(configId, available, stored))
        ELSE Returned("deleteConfig", Some(configId), idbDeleteConfig(configId, stored))

ClearAllConfigs ==
    IF backend = "localStorage"
    THEN Returned("clearAllConfigs", Null, [thrown |-> NoError, stored |-> clearAllConfigs])
    ELSE Returned("clearAllConfigs", Null, idbClearAllConfigs(stored))

NextStorage ==
    \/ SaveConfigs
    \/ LoadConfigs
    \/ DeleteConfig
    \/ ClearAllConfigs

SpecStorage == InitStorage /\ [][NextStorage]_vars

(***************************************************************************)
(* ErrorNotification as a state machine: the renders with another error,   *)
(* the click on the close button, and the two timeouts.  onDismiss is      *)
(* handleErrorDismiss of App.tsx, which dispatches SET_ERROR with null;    *)
(* query keeps the last event and, of a call of onDismiss, the error prop  *)
(* at the time of the call; closingFor keeps, for every pending timeout of *)
(* handleDismiss, the error that was shown when it was set.  Timeouts of   *)
(* one delay run in the order in which they were set.                      *)
(***************************************************************************)
\* bound on the number of pending closing timeouts
MaxTimers == 3

ErrorPool == {"first", "second"}

InitNotification ==
    /\ pdfPoints = <<>>
    /\ mapPoints = <<>>
    /\ pc = "start"
    /\ augmented = <<>>
    /\ col = 0
    /\ pivotSeen = Null
    /\ solution = <<>>
    /\ matrix = Null
    /\ thrown = NoError
    /\ query = NoQuery
    /\ answer = Null
    /\ AppInit
    /\ StorageInit
    /\ notification \in {Mounted(autoHide, autoHideDelay) :
                            autoHide \in BOOLEAN, autoHideDelay \in {0, 7000}}

Event(op, arg) ==
    /\ query' = [op |-> op, arg |-> arg, from |-> Null]
    /\ UNCHANGED <<pdfPoints, mapPoints, pc, augmented, col, pivotSeen, solution, matrix,
                   thrown, answer>>
    /\ UNCHANGED <<currentPDF, referencePoints, currentStep, overlay, savedConfigs, isPanelVisible>>
    /\ UNCHANGED <<mapVars, storageVars, serviceVars>>

\* the application state gets another error, or none: the render runs the effect
ErrorChanges ==
    \E e \in ErrorPool \cup {NoError} :
        /\ e # error
        /\ error' = e
        /\ notification' = ErrorEffect(notification, e)
        /\ Event("render", Null)

\* the click on the close button of a shown notification
DismissClicked ==
    /\ error # NoError /\ notification.isVisible
    /\ notification.closing < MaxTimers
    /\ notification' = [handleDismiss(notification) EXCEPT !.closingFor = Append(@, error)]
    /\ UNCHANGED error
    /\ Event("click", Null)

\* the auto-hide timeout of the effect
AutoHideTimeout ==
    /\ notification.timer
    /\ notification.closing < MaxTimers
    /\ notification' = [handleDismiss([notification EXCEPT !.timer = FALSE])
                            EXCEPT !.closingFor = Append(@, error)]
    /\ UNCHANGED error
    /\ Event("autoHide", Null)

\* the 300 ms timeout of handleDismiss: setIsVisible(false) and onDismiss()
ClosingTimeout ==
    /\ notification.closing > 0
    /\ error' = NoError
    /\ notification' =
        LET n == [notification EXCEPT !.isVisible = FALSE, !.closing = @ - 1,
                                      !.closingFor = Tail(@)]
        IN  IF error # NoError THEN ErrorEffect(n, NoError) ELSE n
    /\ Event("onDismiss", Some(error))

NextNotification ==
    \/ ErrorChanges
    \/ DismissClicked
    \/ AutoHideTimeout
    \/ ClosingTimeout

SpecNotification == InitNotification /\ [][NextNotification]_vars

\* a timeout that is due is run by the event loop
FairSpecNotification ==
    SpecNotification /\ WF_vars(AutoHideTimeout) /\ WF_vars(ClosingTimeout)

(***************************************************************************)
(* ApplicationProvider as a state machine: the effect that loads the saved *)
(* configs at mount, the effect that saves state.savedConfigs 500 ms after *)
(* its last change, the save button of OverlayControls and the two buttons *)
(* of ConfigManager, which write to the storage themselves.  The storage   *)
(* is the IndexedDB module: its transactions on the object store run in    *)
(* the order in which they were created, and the awaits of an operation    *)
(* continue when its transaction is done.  The load effect is declared     *)
(* before the save effect, so its transaction is the first.  SET_LOADING   *)
(* is left out: it does not touch savedConfigs.                            *)
(***************************************************************************)
\* bound on the number of clicks on the save, delete and clear buttons
MaxChanges == 2

\* the configs OverlayControls hands to saveConfigToStorage: their dates are valid
ProviderConfigPool == {config \in SavedConfigPool : DatesValid(config)}

\* what a previous session left in the object store
SessionPool ==
    {<<>>,
     <<idbItem(SavedConfig(1, "b", <<0, 77>>, Date(0 - 1)))>>,
     <<idbItem(SavedConfig(1, "b", <<0, 77>>, Date(0 - 1))),
       idbItem(SavedConfig(2, "a", <<255>>, Date(0)))>>}

Range(seq) == {seq[i] : i \in 1..Len(seq)}

\* the actions whose reducer case makes another savedConfigs array
SavedConfigsActions == {"SAVE_CONFIG", "DELETE_CONFIG", "LOAD_SAVED_CONFIGS", "CLEAR_ALL_CONFIGS"}

\* the save effect on a keeping list of timeouts: nothing is cleared
SaveEffectKeeping(timeouts, configs) == Append(timeouts, configs)

\* the save effect run for another state.savedConfigs: the pending timeout is
\* cleared and one is set whose callback holds the configs of this render
SaveEffect(timeouts, configs) == <<configs>>

\* the provider as it is mounted on a store: loadConfigs is waiting for its
\* transaction, and the save effect has run for the initial savedConfigs
MountedProvider(session) ==
    [load |-> "pending",
     timeouts |-> SaveEffect(<<>>, initialState.savedConfigs),
     transactions |-> <<[op |-> "loadConfigs"]>>,
     session |-> session,
     changes |-> 0]

InitProvider ==
    /\ pdfPoints = <<>>
    /\ mapPoints = <<>>
    /\ pc = "start"
    /\ augmented = <<>>
    /\ col = 0
    /\ pivotSeen = Null
    /\ solution = <<>>
    /\ matrix = Null
    /\ thrown = NoError
    /\ query = NoQuery
    /\ answer = Null
    /\ currentPDF = initialState.currentPDF
    /\ referencePoints = initialState.referencePoints
    /\ currentStep = initialState.currentStep
    /\ overlay = initialState.overlay
    /\ savedConfigs = initialState.savedConfigs
    /\ error = initialState.error
    /\ isPanelVisible = initialState.isPanelVisible
    /\ isLoading = FALSE
    /\ mapError = NoError
    /\ overlayImageUrl = Null
    /\ overlayBounds = Null
    /\ overlayCreatedRef = FALSE
    /\ originalBoundsRef = Null
    /\ tasks = {}
    /\ nextId = 0
    /\ moves = 0
    /\ NotificationInit
    /\ backend = "indexedDB"
    /\ stored \in SessionPool
    /\ provider = MountedProvider(stored)
    /\ pdfToImage = ModuleLoaded

\* dispatch(action) in the provider p: the reducer, and the save effect when
\* the render has another savedConfigs
Dispatched(action, p) ==
    LET new == applicationReducer(State, action)
    IN  /\ Commit(new, Component)
        /\ provider' = IF action.type \in SavedConfigsActions
                       THEN [p EXCEPT !.timeouts = SaveEffect(@, new.savedConfigs)]
                       ELSE p
        /\ UNCHANGED <<engineVars, nextId, moves, backend, notification, pdfToImage>>

\* a transaction is created on the object store
Created(p, transaction) == [p EXCEPT !.transactions = Append(@, transaction)]

Changed(p) == [p EXCEPT !.changes = @ + 1]

\* OverlayControls handleSave: saveConfigToStorage dispatches SAVE_CONFIG
SaveConfigToStorage ==
    /\ provider.changes < MaxChanges
    /\ \E config \in ProviderConfigPool :
        Dispatched([type |-> "SAVE_CONFIG", payload |-> config], Changed(provider))
    /\ UNCHANGED stored

\* ConfigManager handleDeleteConfig up to its await: deleteConfig has called loadConfigs
HandleDeleteConfig ==
    /\ provider.changes < MaxChanges
    /\ \E i \in 1..Len(savedConfigs) :
        provider' = Created(Changed(provider),
                            [op |-> "deleteConfig", configId |-> savedConfigs[i].id])
    /\ UNCHANGED <<engineVars, appVars, mapVars, storageVars, notification, pdfToImage>>

\* ConfigManager handleClearAll up to its await: clearAllConfigs has called saveConfigs([])
HandleClearAll ==
    /\ provider.changes < MaxChanges
    /\ Len(savedConfigs) > 0
    /\ provider' = Created(Changed(provider), [op |-> "clearAllConfigs"])
    /\ UNCHANGED <<engineVars, appVars, mapVars, storageVars, notification, pdfToImage>>

\* the callback of the oldest pending timeout: saveCurrentConfigs calls saveConfigs
\* with the savedConfigs of the render that set the timeout
SaveTimeout ==
    /\ provider.timeouts # <<>>
    /\ provider' = Created([provider EXCEPT !.timeouts = Tail(@)],
                           [op |-> "saveConfigs", configs |-> Head(provider.timeouts)])
    /\ UNCHANGED <<engineVars, appVars, mapVars, storageVars, notification, pdfToImage>>

\* the oldest transaction is done and the function that awaits it goes on
TransactionDone ==
    /\ provider.transactions # <<>>
    /\ LET transaction == Head(provider.transactions)
           rest == [provider EXCEPT !.transactions = Tail(@)]
       IN  CASE transaction.op = "loadConfigs" ->
                    /\ Dispatched([type |-> "LOAD_SAVED_CONFIGS",
                                   payload |-> idbLoadConfigs(stored)],
                                  [rest EXCEPT !.load = "loaded"])
                    /\ UNCHANGED stored
            []  transaction.op = "saveConfigs" ->
                    LET r == idbSaveConfigs(transaction.configs, stored)
                    IN  /\ stored' = r.stored
                        /\ IF r.thrown = NoError
                           THEN /\ provider' = rest
                                /\ UNCHANGED <<engineVars, appVars, mapVars, backend,
                                               notification, pdfToImage>>
                           ELSE Dispatched([type |-> "SET_ERROR", payload |-> "storage"], rest)
            []  transaction.op = "deleteConfig" ->
                    \* loadConfigs of deleteConfig has read: its saveConfigs is called
                    /\ provider' =
                        Created(rest,
                                [op |-> "deleteConfig.saveConfigs",
                                 configId |-> transaction.configId,
                                 configs |-> SelectSeq(idbLoadConfigs(stored),
                                     LAMBDA config : config.id # transaction.configId)])
                    /\ UNCHANGED <<engineVars, appVars, mapVars, storageVars, notification,
                                   pdfToImage>>
            []  transaction.op = "deleteConfig.saveConfigs" ->
                    LET r == idbSaveConfigs(transaction.configs, stored)
                    IN  /\ stored' = r.stored
                        /\ IF r.thrown = NoError
                           THEN Dispatched([type |-> "DELETE_CONFIG",
                                            payload |-> transaction.configId], rest)
                           ELSE Dispatched([type |-> "SET_ERROR", payload |-> "storage"], rest)
            []  transaction.op = "clearAllConfigs" ->
                    LET r == idbClearAllConfigs(stored)
                    IN  /\ stored' = r.stored
                        /\ IF r.thrown = NoError
                           THEN Dispatched([type |-> "CLEAR_ALL_CONFIGS"], rest)
                           ELSE Dispatched([type |-> "SET_ERROR", payload |-> "storage"], rest)

\* the getAll request of the startup load fails: loadSavedConfigs catches
LoadRejected ==
    /\ provider.transactions # <<>>
    /\ Head(provider.transactions).op = "loadConfigs"
    /\ Dispatched([type |-> "SET_ERROR", payload |-> "storage"],
                  [provider EXCEPT !.transactions = Tail(@), !.load = "failed"])
    /\ UNCHANGED stored

NextProvider ==
    \/ SaveConfigToStorage
    \/ HandleDeleteConfig
    \/ HandleClearAll
    \/ SaveTimeout
    \/ TransactionDone
    \/ LoadRejected

SpecProvider == InitProvider /\ [][NextProvider]_vars

\* a timeout that is due is run by the event loop, a transaction comes to its end
FairSpecProvider ==
    SpecProvider /\ WF_vars(SaveTimeout) /\ WF_vars(TransactionDone)

(***************************************************************************)
(* utils/pdfToImage as a state machine: concurrent calls of                *)
(* convertPDFToCanvas, each shown at its awaits (the document being        *)
(* loaded, the page being fetched, the page being rendered), and calls of  *)
(* clearPDFCache by the memory check of App.tsx and by its cleanup.  The   *)
(* documentCache is the sequence of its keys in insertion order, a file is *)
(* the number that makes its cache key, and memory is counted in whole MB: *)
(* every page has a viewport of 45 MB at the scale of the call.            *)
(***************************************************************************)
MAX_CACHE_SIZE == 3
MAX_MEMORY_MB == 100

\* bound on the number of calls of convertPDFToCanvas
MaxCalls == 4

\* the files handed to convertPDFToCanvas: one more than the cache takes
PdfFilePool == 1..(MAX_CACHE_SIZE + 1)

PageViewport(pdfFile) == [width |-> 1024, height |-> 256 * 45]

estimateMemoryUsage(width, height) == (width * height * 4) \div (1024 * 1024)

Has(cache, cacheKey) == \E i \in 1..Len(cache) : cache[i] = cacheKey

\* getCachedPDFDocument up to its first await, on a miss: the oldest document
\* is destroyed and deleted when the cache is full
EvictedFor(cache) == IF Len(cache) >= MAX_CACHE_SIZE THEN Tail(cache) ELSE cache

\* documentCache.set: a key that is in the Map keeps its place
CacheSet(cache, cacheKey) == IF Has(cache, cacheKey) THEN cache ELSE Append(cache, cacheKey)

\* the viewport convertPDFToCanvas renders: the scale is reduced when the
\* estimate does not fit, which divides the area by (total + estimate) / MAX
ViewportFor(viewport, total) ==
    LET estimatedMemory == estimateMemoryUsage(viewport.width, viewport.height)
    IN  IF total + estimatedMemory > MAX_MEMORY_MB
        THEN [viewport EXCEPT !.height = (@ * MAX_MEMORY_MB) \div (total + estimatedMemory)]
        ELSE viewport

InitPdfCache ==
    /\ pdfPoints = <<>>
    /\ mapPoints = <<>>
    /\ pc = "start"
    /\ augmented = <<>>
    /\ col = 0
    /\ pivotSeen = Null
    /\ solution = <<>>
    /\ matrix = Null
    /\ thrown = NoError
    /\ query = NoQuery
    /\ answer = Null
    /\ AppInit
    /\ StorageInit
    /\ NotificationInit

PdfFrame ==
    UNCHANGED <<engineVars, appVars, mapVars, storageVars, notification, provider>>

\* convertPDFToCanvas(pdfFile) up to the first await of getCachedPDFDocument
ConvertPDFToCanvas ==
    /\ pdfToImage.started < MaxCalls
    /\ \E pdfFile \in PdfFilePool :
        LET id == pdfToImage.started + 1
            hit == Has(pdfToImage.documentCache, pdfFile)
            call == [id |-> id, pdfFile |-> pdfFile,
                     at |-> IF hit THEN "getPage" ELSE "getDocument", memoryUsage |-> 0]
        IN  pdfToImage' =
                [pdfToImage EXCEPT !.started = id,
                                   !.calls = @ \cup {call},
                                   !.documentCache = IF hit THEN @ ELSE EvictedFor(@)]
    /\ PdfFrame

\* loadingTask.promise resolved: the document is put into the cache
DocumentLoaded ==
    /\ \E call \in pdfToImage.calls :
        /\ call.at = "getDocument"
        /\ pdfToImage' =
            [pdfToImage EXCEPT !.calls = (@ \ {call}) \cup {[call EXCEPT !.at = "getPage"]},
                               !.documentCache = CacheSet(@, call.pdfFile)]
    /\ PdfFrame

\* pdf.getPage resolved: convertPDFToCanvasInternal up to the await of the render
PageLoaded ==
    /\ \E call \in pdfToImage.calls :
        /\ call.at = "getPage"
        /\ LET viewport == ViewportFor(PageViewport(call.pdfFile), pdfToImage.totalMemoryUsage)
               memoryUsage == estimateMemoryUsage(viewport.width, viewport.height)
           IN  pdfToImage' =
                [pdfToImage EXCEPT
                    !.calls = (@ \ {call}) \cup {[call EXCEPT !.at = "render",
                                                              !.memoryUsage = memoryUsage]},
                    !.totalMemoryUsage = @ + memoryUsage]
    /\ PdfFrame

\* page.render settled, resolved or rejected: the finally block
RenderSettled ==
    /\ \E call \in pdfToImage.calls :
        /\ call.at = "render"
        /\ pdfToImage' = [pdfToImage EXCEPT !.calls = @ \ {call},
                                            !.totalMemoryUsage = @ - call.memoryUsage]
    /\ PdfFrame

clearPDFCache(module) == [module EXCEPT !.documentCache = <<>>, !.totalMemoryUsage = 0]

\* the callback of the interval of App.tsx
MemoryCheck ==
    /\ pdfToImage.totalMemoryUsage * 10 > MAX_MEMORY_MB * 8
    /\ pdfToImage' = clearPDFCache(pdfToImage)
    /\ PdfFrame

\* the cleanup of the effect of App.tsx, which StrictMode runs after the first mount too
EffectCleanup ==
    /\ pdfToImage.documentCache # <<>> \/ pdfToImage.totalMemoryUsage # 0
    /\ pdfToImage' = clearPDFCache(pdfToImage)
    /\ PdfFrame

NextPdfCache ==
    \/ ConvertPDFToCanvas
    \/ DocumentLoaded
    \/ PageLoaded
    \/ RenderSettled
    \/ MemoryCheck
    \/ EffectCleanup

SpecPdfCache == InitPdfCache /\ [][NextPdfCache]_vars

(***************************************************************************)
(* Properties of the engine.                                               *)
(***************************************************************************)
ThreeEach == Len(pdfPoints) = 3 /\ Len(mapPoints) = 3

\* twice the signed area of the triangle p, q, r
Cross(p, q, r) ==
    Minus(Times(Minus(q.x, p.x), Minus(r.y, p.y)), Times(Minus(r.x, p.x), Minus(q.y, p.y)))

Collinear(pts) == Cross(pts[1], pts[2], pts[3]) = Num(0)

Distinct(pts) == \A i, j \in 1..Len(pts) : i # j => pts[i] # pts[j]

\* C1: a transform returned by calculateTransformMatrix maps each of the three
\* PDF reference points exactly onto its map reference point:
\* lng_i = a*x_i + b*y_i + e and lat_i = c*x_i + d*y_i + f.
C1_FitExactness ==
    pc = "done" =>
        /\ \A i \in 1..3 : transformPDFToGeo(pdfPoints[i], matrix[1]) = mapPoints[i]
        /\ \A i \in 1..3 :
            (query.op = "transformPDFToGeo" /\ query.arg = Some(pdfPoints[i]))
                => answer = Some(mapPoints[i])

C1_Witness ==
    /\ pc = "done"
    /\ query.op = "transformPDFToGeo"
    /\ query.arg = Some(pdfPoints[3])
    /\ answer = Some(mapPoints[3])
    /\ Distinct(mapPoints)
    /\ matrix[1].b # Num(0)
    /\ matrix[1].e # Num(0)

\* C2: when the three PDF points are collinear (two or three equal points
\* included) the call never gets past the forward elimination and returns no
\* transform, whatever the three map points are; when it has failed, the
\* error is the degenerate-configuration error.
C2_DegeneracyDetection ==
    (ThreeEach /\ Collinear(pdfPoints)) =>
        /\ pc \in {"start", "eliminate", "failed"}
        /\ matrix = Null
        /\ pc = "failed" => thrown = "degenerate"

C2_Witness ==
    /\ ThreeEach
    /\ Collinear(pdfPoints)
    /\ Distinct(pdfPoints)
    /\ Distinct(mapPoints)
    /\ pc = "failed"
    /\ thrown = "degenerate"

\* C3: when either list does not have exactly 3 elements the call fails with
\* the insufficient-reference-points error, and no linear system was built
\* or solved.
C3_InsufficientPoints ==
    (Len(pdfPoints) # 3 \/ Len(mapPoints) # 3) =>
        /\ pc \in {"start", "failed"}
        /\ pc = "failed" => thrown = "insufficient"
        /\ augmented = <<>>
        /\ col = 0
        /\ pivotSeen = Null
        /\ solution = <<>>
        /\ matrix = Null

C3_Witness ==
    /\ Len(pdfPoints) = 4
    /\ Len(mapPoints) = 3
    /\ pc = "failed"
    /\ thrown = "insufficient"

\* the system calculateTransformMatrix hands to solveLinearSystem
SystemA == CoefficientMatrix(pdfPoints)
SystemB == ResultVector(mapPoints)

RECURSIVE Dot(_, _, _)
Dot(row, x, j) ==
    IF j = 0 THEN Num(0) ELSE Plus(Dot(row, x, j - 1), Times(row[j], x[j]))

\* every entry of pivot column i in the remaining rows i .. n is below 1e-10
\* in magnitude, i.e. so is the largest of them
LargestBelowEpsilon(aug, i) ==
    \A r \in i..Len(aug) : BelowEpsilon(MathAbs(aug[r][i]))

\* the entry with the largest magnitude of pivot column i in the rows i .. n
IsLargest(aug, i, v) ==
    /\ \E r \in i..Len(aug) : aug[r][i] = v
    /\ \A r \in i..Len(aug) : LessEq(MathAbs(aug[r][i]), MathAbs(v))

\* C4: solveLinearSystem either throws the singular-system error or returns
\* x of length n with A*x = B; in each pivot column it tests the entry of
\* largest magnitude among the remaining rows and throws exactly when that
\* magnitude is below 1e-10.
C4_SolverCorrectness ==
    /\ [](pc = "done" =>
            /\ Len(solution) = Len(SystemA)
            /\ \A i \in 1..Len(SystemA) : Dot(SystemA[i], solution, Len(SystemA)) = SystemB[i])
    /\ [](pc = "failed" => thrown \in {"insufficient", "degenerate"})
    /\ [][pc = "eliminate" =>
            /\ IsLargest(augmented, col, pivotSeen'[1])
            /\ (pc' = "failed" /\ thrown' = "degenerate") <=> LargestBelowEpsilon(augmented, col)
            /\ pc' = "failed" => (solution' = <<>> /\ matrix' = Null)]_vars

C4_Witness ==
    /\ pc = "done"
    /\ augmented[1] # AugmentedSystem(SystemA, SystemB)[1]
    /\ \E j \in 1..Len(solution) : solution[j].d > 1

\* the four corners of the rectangle of the last transformPDFBoundsToGeoBounds call
TransformedCorner(i) == transformPDFToGeo(Corners(query.arg[1])[i], matrix[1])

\* C5: the four transformed corners of the rectangle lie inside the returned
\* bounds (boundary included), and each of north, south, east and west is
\* the coordinate of one of them.
C5_BoundingBoxContainment ==
    query.op = "transformPDFBoundsToGeoBounds" =>
        LET b == answer[1]
        IN  /\ \A i \in 1..4 :
                /\ LessEq(b.south, TransformedCorner(i).lat)
                /\ LessEq(TransformedCorner(i).lat, b.north)
                /\ LessEq(b.west, TransformedCorner(i).lng)
                /\ LessEq(TransformedCorner(i).lng, b.east)
            /\ \E i \in 1..4 : TransformedCorner(i).lat = b.north
            /\ \E i \in 1..4 : TransformedCorner(i).lat = b.south
            /\ \E i \in 1..4 : TransformedCorner(i).lng = b.east
            /\ \E i \in 1..4 : TransformedCorner(i).lng = b.west

\* a rotated or skewed image: the two corners (minX,minY), (maxX,maxY) do not span it
C5_Witness ==
    /\ query.op = "transformPDFBoundsToGeoBounds"
    /\ matrix[1].b # Num(0)
    /\ matrix[1].c # Num(0)
    /\ answer[1] # transformTwoCorners(query.arg[1], matrix[1])

\* C6: the returned bounds are ordered, north >= south and east >= west, for
\* every rectangle (also with minX > maxX or minY > maxY) and every transform.
C6_BoundsOrdering ==
    query.op = "transformPDFBoundsToGeoBounds" =>
        /\ LessEq(answer[1].south, answer[1].north)
        /\ LessEq(answer[1].west, answer[1].east)

\* an inverted rectangle under a transform with a negative scale
C6_Witness ==
    /\ query.op = "transformPDFBoundsToGeoBounds"
    /\ Less(query.arg[1].maxX, query.arg[1].minX)
    /\ Less(matrix[1].d, Num(0))
    /\ Less(answer[1].south, answer[1].north)
    /\ Less(answer[1].west, answer[1].east)

\* C7: updateOverlayPosition returns bounds with the lat span and the lng
\* span of the bounds it was given and with the new centre as midpoint.
C7_RecenterSpanPreservation ==
    query.op = "updateOverlayPosition" =>
        LET old == query.from[1]
            c == query.arg[1]
            new == answer[1]
        IN  /\ Minus(new.north, new.south) = Minus(old.north, old.south)
            /\ Minus(new.east, new.west) = Minus(old.east, old.west)
            /\ Over(Plus(new.north, new.south), Num(2)) = c.lat
            /\ Over(Plus(new.east, new.west), Num(2)) = c.lng

C7_Witness ==
    /\ query.op = "updateOverlayPosition"
    /\ Less(query.from[1].south, query.from[1].north)
    /\ Less(query.from[1].west, query.from[1].east)
    /\ answer[1] # query.from[1]
    /\ answer[1].north.d > 1

\* the bounds the GroundOverlay is rendered with, when it is rendered
Displayed == mapError = NoError /\ overlayImageUrl # Null /\ overlayBounds # Null
LatSpan(b) == Minus(b.north, b.south)
LngSpan(b) == Minus(b.east, b.west)
MidPoint(b) == [lat |-> Over(Plus(b.north, b.south), Num(2)),
                lng |-> Over(Plus(b.east, b.west), Num(2))]

\* C8: no span drift.  Once an overlay has been created, after any sequence
\* of UPDATE_OVERLAY_POSITION, the bounds displayed for the overlay have the
\* lat span and the lng span of the first-computed bounds and are centered on
\* the latest center.
C8_NoSpanDrift ==
    (overlay # Null /\ Displayed) =>
        /\ LatSpan(overlayBounds[1]) = LatSpan(overlay[1].bounds)
        /\ LngSpan(overlayBounds[1]) = LngSpan(overlay[1].bounds)
        /\ MidPoint(overlayBounds[1]) = overlay[1].position.center

\* C9: when the determinant a*d - b*c is not below 1e-10 in magnitude,
\* transformGeoToPDF of transformPDFToGeo(p) does not throw and returns p,
\* translation terms included.
C9_RoundTrip ==
    (query.op = "transformGeoToPDF" /\ query.from # Null
        /\ ~BelowEpsilon(MathAbs(Minus(Times(matrix[1].a, matrix[1].d),
                                       Times(matrix[1].b, matrix[1].c)))))
    => (thrown = NoError /\ answer = query.from)

C9_Witness ==
    /\ query.op = "transformGeoToPDF"
    /\ query.from = Some(PDFPoint(0 - 1, 3))
    /\ answer = query.from
    /\ matrix[1].e # Num(0)
    /\ matrix[1].f # Num(0)
    /\ matrix[1].b # Num(0)

\* C10: every transform calculateTransformMatrix returned is invertible: its
\* determinant is not below 1e-10 in magnitude and transformGeoToPDF never
\* throws the non-invertible-transform error.
C10_EstimatedTransformInvertible ==
    pc = "done" =>
        /\ ~BelowEpsilon(MathAbs(Minus(Times(matrix[1].a, matrix[1].d),
                                       Times(matrix[1].b, matrix[1].c))))
        /\ thrown # "noninvertible"

\* a JavaScript number that is neither NaN nor an infinity
IsFinite(p) == p.d # 0
SixFinite(m) ==
    IsFinite(m.a) /\ IsFinite(m.b) /\ IsFinite(m.c) /\ IsFinite(m.d) /\ IsFinite(m.e) /\ IsFinite(m.f)

\* C11 as stated: for any 3 source points that are not collinear, however
\* small, and any 3 target points, calculateTransformMatrix does not raise
\* and returns six finite coefficients.
C11_FailsOnlyOnDegenerate ==
    (ThreeEach /\ ~Collinear(pdfPoints)) =>
        /\ pc # "failed"
        /\ pc = "done" => SixFinite(matrix[1])

\* C11 amended: for 3 source points that are not collinear and any 3 target
\* points, calculateTransformMatrix either returns six finite coefficients,
\* or raises the degenerate error on a pivot that is not 0 but below 1e-10 in
\* magnitude (a triangle too small for the absolute threshold); a pivot of
\* exactly 0 occurs for collinear source points only.
C11_FailsOnlyBelowThreshold ==
    (ThreeEach /\ ~Collinear(pdfPoints)) =>
        /\ pc = "failed" =>
            /\ thrown = "degenerate"
            /\ pivotSeen[1] # Num(0)
            /\ BelowEpsilon(MathAbs(pivotSeen[1]))
            /\ matrix = Null
        /\ pc = "done" => SixFinite(matrix[1])

C11_Witness ==
    /\ ThreeEach /\ ~Collinear(pdfPoints)
    /\ pc = "failed"
    /\ pivotSeen[1] # Num(0)

\* C12: placement consistency.  Whenever the center of the overlay is updated
\* (UPDATE_OVERLAY_POSITION) the bounds stored with it are recomputed: in
\* every state with an overlay the midpoint of the stored bounds is the
\* stored center.
C12_PlacementConsistency ==
    overlay # Null => MidPoint(overlay[1].bounds) = overlay[1].position.center

\* the step is a render in which createOverlay passed its guard and
\* calculateTransformMatrix threw
EstimationThrows ==
    /\ currentPDF' # currentPDF \/ referencePoints' # referencePoints
    /\ currentPDF' # Null
    /\ Len(referencePoints'.pdf) = 3 /\ Len(referencePoints'.map) = 3
    /\ ~overlayCreatedRef
    /\ overlay' = Null
    /\ calculateTransformMatrix(referencePoints'.pdf, referencePoints'.map).thrown # NoError

\* C14: when transform estimation fails during overlay creation nothing is
\* partially applied: no overlay is installed and no continuation that
\* would install one is started, the overlay image and bounds are not set,
\* the step is not OVERLAY_ADJUSTMENT, and the thrown error is in state.error
\* and in the component.
C14_NoPartialResult ==
    [][EstimationThrows =>
        /\ overlay' = Null
        /\ tasks' = tasks
        /\ UNCHANGED <<overlayImageUrl, overlayBounds, originalBoundsRef>>
        /\ currentStep' # OVERLAY_ADJUSTMENT
        /\ error' = calculateTransformMatrix(referencePoints'.pdf, referencePoints'.map).thrown
        /\ mapError' = error'
        /\ ~overlayCreatedRef' /\ ~isLoading']_vars

C14_Witness ==
    /\ mapError = "degenerate" /\ error = "degenerate"
    /\ Len(referencePoints.pdf) = 3 /\ Len(referencePoints.map) = 3
    /\ overlay = Null /\ tasks = {}

\* the step starts a createOverlay() that goes on to its first await
StartsCreate == \E t \in tasks' : t.kind = "create" /\ t.stage = "image" /\ t \notin tasks

\* C15: a creation attempt starts only in a step that changes the PDF file
\* or the reference points; in particular the step in which an attempt
\* fails, and every later step that leaves the file and the points as they
\* are, starts no new attempt.
C15_NoAutomaticRetry ==
    [][StartsCreate => (currentPDF' # currentPDF \/ referencePoints' # referencePoints)]_vars

\* an attempt failed after its estimation succeeded, nothing is running, and
\* the guard of createOverlay is open
C15_Witness ==
    /\ mapError = "image" /\ error = "image"
    /\ currentPDF # Null
    /\ Len(referencePoints.pdf) = 3 /\ Len(referencePoints.map) = 3
    /\ overlay = Null /\ ~overlayCreatedRef /\ tasks = {}

\* the sum of the distances of the pairs i..Len(pdfPoints), last pair first
RECURSIVE DistancesFrom(_)
DistancesFrom(i) ==
    IF i > Len(pdfPoints) THEN Num(0)
    ELSE Plus(DistancesFrom(i + 1),
              calculateDistance(transformPDFToGeo(pdfPoints[i], matrix[1]), mapPoints[i]))

Validated == query # NoQuery /\ query.op = "validateTransformAccuracy"

\* C16: validateTransformAccuracy fails if and only if the two lists have
\* different lengths; for two lists of equal length, of any size, it raises
\* no error and returns a number that is the arithmetic mean of the
\* per-pair distances.
C16_MeanForAnySize ==
    Validated =>
        /\ thrown # NoError <=> Len(pdfPoints) # Len(mapPoints)
        /\ thrown = NoError =>
            /\ IsFinite(answer[1])
            /\ Times(answer[1], Num(Len(pdfPoints))) = DistancesFrom(1)

\* C16 (amended): validateTransformAccuracy fails if and only if the two
\* lists have different lengths; for two lists of equal length of at least
\* one pair it returns the arithmetic mean of the per-pair distances, and
\* for two empty lists it raises no error and returns NaN (0 / 0).
C16_MeanForNonEmpty ==
    Validated =>
        /\ thrown # NoError <=> Len(pdfPoints) # Len(mapPoints)
        /\ thrown = "mismatched" \/ thrown = NoError
        /\ (thrown = NoError /\ Len(pdfPoints) >= 1) =>
            /\ IsFinite(answer[1])
            /\ Times(answer[1], Num(Len(pdfPoints))) = DistancesFrom(1)
        /\ (thrown = NoError /\ Len(pdfPoints) = 0) => ~IsFinite(answer[1])

\* a mean over two pairs or more, with distances that differ
C16_Witness ==
    /\ Validated /\ thrown = NoError
    /\ Len(pdfPoints) >= 2
    /\ \E i, j \in 1..Len(pdfPoints) :
        /\ calculateDistance(transformPDFToGeo(pdfPoints[i], matrix[1]), mapPoints[i]) = Num(0)
        /\ calculateDistance(transformPDFToGeo(pdfPoints[j], matrix[1]), mapPoints[j]) # Num(0)

\* no two saved configs share an id
UniqueIds(configs) == \A i, j \in 1..Len(configs) : configs[i].id = configs[j].id => i = j

\* C19: SAVE_CONFIG with a config whose id is in savedConfigs replaces that
\* entry in place and keeps the other entries and the number of saved
\* configs, otherwise it appends the config as one new entry; and in every
\* state reached by SAVE_CONFIG, DELETE_CONFIG and CLEAR_ALL_CONFIGS from
\* lists with unique ids no two saved configs share an id.
C19_SaveIsUpsert ==
    /\ UniqueIds(savedConfigs)
    /\ query.op = "SAVE_CONFIG" =>
        LET before == query.from[1]
            config == query.arg[1].payload
            known == {i \in 1..Len(before) : before[i].id = config.id}
        IN  IF known # {}
            THEN /\ Len(savedConfigs) = Len(before)
                 /\ \A i \in 1..Len(before) :
                        savedConfigs[i] = IF i \in known THEN config ELSE before[i]
            ELSE savedConfigs = Append(before, config)

\* a SAVE_CONFIG that replaced the first of two saved configs by another one
C19_Witness ==
    /\ query.op = "SAVE_CONFIG"
    /\ Len(query.from[1]) = 2 /\ Len(savedConfigs) = 2
    /\ query.from[1][1].id = query.arg[1].payload.id
    /\ query.from[1][1] # savedConfigs[1]

(***************************************************************************)
(* Properties of the storage.                                              *)
(***************************************************************************)
\* what loadConfigs returns in this state
Loaded == IF backend = "localStorage" THEN loadConfigs(stored) ELSE idbLoadConfigs(stored)

\* same id and name, dates of the same instant, data of the same length and bytes
SameConfig(a, b) ==
    /\ a.id = b.id /\ a.name = b.name
    /\ a.createdAt.valid /\ b.createdAt.valid /\ a.createdAt.time = b.createdAt.time
    /\ a.updatedAt.valid /\ b.updatedAt.valid /\ a.updatedAt.time = b.updatedAt.time
    /\ Len(a.pdfFile.data) = Len(b.pdfFile.data)
    /\ \A k \in 1..Len(a.pdfFile.data) : a.pdfFile.data[k] = b.pdfFile.data[k]

SaveReturned == query.op = "saveConfigs" /\ thrown = NoError

\* C17: after saveConfigs(cs) has returned, loadConfigs returns as many
\* configurations as cs holds, each config of cs among them with its id, its
\* name, its dates and the bytes of pdfFile.data, and nothing else; with
\* nothing stored loadConfigs returns the empty list.
C17_RoundTrip ==
    /\ SaveReturned =>
        LET cs == query.arg[1]
        IN  /\ Len(Loaded) = Len(cs)
            /\ \A i \in 1..Len(cs) : \E j \in 1..Len(Loaded) : SameConfig(Loaded[j], cs[i])
            /\ \A j \in 1..Len(Loaded) : \E i \in 1..Len(cs) : SameConfig(Loaded[j], cs[i])
            /\ backend = "localStorage" =>
                \A i \in 1..Len(cs) : SameConfig(Loaded[i], cs[i])
    /\ stored = Null => Loaded = <<>>

\* two configs saved, with data that ends in a padded base64 group
C17_Witness ==
    /\ SaveReturned /\ backend = "localStorage"
    /\ Len(query.arg[1]) = 2
    /\ query.arg[1][1].id # query.arg[1][2].id
    /\ \E i \in 1..2 : Len(query.arg[1][i].pdfFile.data) = 4

\* what loadConfigs returned before the call in query
LoadedBefore ==
    IF backend = "localStorage" THEN loadConfigs(query.from[1]) ELSE idbLoadConfigs(query.from[1])

\* C18: after deleteConfig(id) the stored configurations are the ones stored
\* before without the one whose id is id, each of them unchanged; for an id
\* that is not stored deleteConfig raises no error and the stored
\* configurations are the ones stored before; after clearAllConfigs,
\* loadConfigs returns the empty list.
C18_DeleteExactly ==
    /\ query.op = "deleteConfig" =>
        /\ Loaded = SelectSeq(LoadedBefore, LAMBDA config : config.id # query.arg[1])
        /\ (\A i \in 1..Len(LoadedBefore) : LoadedBefore[i].id # query.arg[1]) =>
                thrown = NoError
    /\ query.op = "clearAllConfigs" => Loaded = <<>>

(***************************************************************************)
(* Properties of ErrorNotification.                                        *)
(***************************************************************************)
\* the notification is rendered
Shown == error # NoError /\ notification.isVisible

\* the part of the claim on the auto-hide: a notification that shows an
\* error with autoHide and a positive autoHideDelay calls onDismiss
\* eventually, unless the error changes before
EventuallyDismissed ==
    \A e \in ErrorPool :
        (error = e /\ notification.autoHide /\ notification.autoHideDelay > 0)
            ~> (query.op = "onDismiss" \/ error # e)

\* the part of the claim on error = null: nothing is shown, and onDismiss is
\* not called while the error prop is null
NoDismissWithoutError ==
    /\ error = NoError => ~Shown
    /\ query.op = "onDismiss" => query.arg # Some(NoError)

\* C20: a notification that shows an error with autoHide and a positive
\* autoHideDelay calls onDismiss eventually, unless the error changes
\* before; and with error = null nothing is shown and onDismiss is not
\* called.
C20_AutoHide == EventuallyDismissed /\ []NoDismissWithoutError

(***************************************************************************)
(* Properties of the store.                                                *)
(***************************************************************************)
\* C13: in every reachable state of the store the opacity of the overlay is
\* a number in [0,1], whatever the payloads of the UPDATE_OVERLAY_OPACITY
\* actions dispatched so far.
C13_OpacityRange ==
    overlay # Null =>
        /\ LessEq(Num(0), overlay[1].opacity)
        /\ LessEq(overlay[1].opacity, Num(1))

(***************************************************************************)
(* C21: an installed overlay belongs to the current inputs: whenever       *)
(* state.overlay is set, currentPDF is set and state.referencePoints holds *)
(* exactly the 3 PDF points and the 3 map points the overlay was computed  *)
(* from, also when createOverlay finishes after CLEAR_PDF or               *)
(* CLEAR_REFERENCE_POINTS was dispatched.                                  *)
(***************************************************************************)
C21_OverlayBelongsToInputs ==
    overlay # Null =>
        /\ currentPDF # Null
        /\ Len(referencePoints.pdf) = 3
        /\ Len(referencePoints.map) = 3
        /\ referencePoints = overlay[1].referencePoints

(***************************************************************************)
(* C22: pair alignment.  Under every sequence of user actions the map      *)
(* point selected at reference step k is stored at the index of the PDF    *)
(* point selected at step k, so that pdf[i] and map[i] are the pair the    *)
(* user chose together; in particular 0 <= |pdf| - |map| <= 1 and          *)
(* |pdf| <= 3 in every state.                                              *)
(***************************************************************************)
\* the index, 1-based, of the pair that is selected in the current step
CurrentIndex == currentStep - REFERENCE_POINT_1 + 1

SizesAligned ==
    /\ Len(referencePoints.pdf) - Len(referencePoints.map) \in {0, 1}
    /\ Len(referencePoints.pdf) <= 3

\* a click that adds a point stores it at the index of the current step
ClickStoredAtStep ==
    /\ (/\ Len(referencePoints'.pdf) = Len(referencePoints.pdf) + 1
        /\ referencePoints'.map = referencePoints.map)
            => Len(referencePoints'.pdf) = CurrentIndex
    /\ (/\ Len(referencePoints'.map) = Len(referencePoints.map) + 1
        /\ referencePoints'.pdf = referencePoints.pdf)
            => Len(referencePoints'.map) = CurrentIndex

C22_PairAlignment == []SizesAligned /\ [][ClickStoredAtStep]_vars

(***************************************************************************)
(* C23: step progression.  SET_PDF sets the step to REFERENCE_POINT_1;     *)
(* each map point that completes a pair advances currentStep by exactly    *)
(* one, the third map point sets it to OVERLAY_CREATION, a map point that  *)
(* completes no pair leaves it unchanged; SET_OVERLAY sets it to           *)
(* OVERLAY_ADJUSTMENT; NEXT_STEP and PREVIOUS_STEP never move it outside   *)
(* 0..5.                                                                   *)
(***************************************************************************)
MapPointAdded ==
    /\ Len(referencePoints'.map) = Len(referencePoints.map) + 1
    /\ referencePoints'.pdf = referencePoints.pdf

StepRule ==
    /\ (currentPDF = Null /\ currentPDF' # Null) => currentStep' = REFERENCE_POINT_1
    /\ MapPointAdded =>
            currentStep' =
                IF Len(referencePoints'.map) = 3 THEN OVERLAY_CREATION
                ELSE IF Len(referencePoints'.map) = Len(referencePoints'.pdf)
                     THEN currentStep + 1
                     ELSE currentStep
    /\ (overlay = Null /\ overlay' # Null) => currentStep' = OVERLAY_ADJUSTMENT

StepsStayInRange ==
    /\ currentStep \in PDF_UPLOAD..OVERLAY_ADJUSTMENT
    /\ \A type \in {"NEXT_STEP", "PREVIOUS_STEP"} :
            applicationReducer(State, [type |-> type, payload |-> Null]).currentStep
                \in PDF_UPLOAD..OVERLAY_ADJUSTMENT

CreationFailed == mapError # NoError /\ overlay = Null

Recovered ==
    /\ currentStep = REFERENCE_POINT_1
    /\ referencePoints = [pdf |-> <<>>, map |-> <<>>]
    /\ mapError = NoError

C24_Recovery == CreationFailed ~> Recovered

(***************************************************************************)
(* C25: the save effect does not write the initial savedConfigs over the   *)
(* store of a previous session.  Whatever the order of the startup load    *)
(* and the save timeout, as long as the user has changed nothing the       *)
(* object store holds what the previous session left in it.                *)
(***************************************************************************)
C25_PreviousSessionKept ==
    (provider.load # "none" /\ provider.changes = 0) => stored = provider.session

(***************************************************************************)
(* C26: debounced persistence.  At most one save timeout is pending and it *)
(* holds the latest savedConfigs, a save that a timeout starts carries the *)
(* savedConfigs of that moment, and when the changes have stopped the      *)
(* object store holds the items of state.savedConfigs for good.            *)
(***************************************************************************)
SingleSave ==
    /\ Len(provider.timeouts) <= 1
    /\ provider.timeouts # <<>> => provider.timeouts[1] = savedConfigs

SaveCarriesLatest ==
    (/\ Len(provider'.transactions) > Len(provider.transactions)
     /\ provider'.transactions[Len(provider'.transactions)].op = "saveConfigs")
        => provider'.transactions[Len(provider'.transactions)].configs = savedConfigs

StorageHoldsState == stored = InKeyOrder({idbItem(config) : config \in Range(savedConfigs)})

RenderedAsStored ==
    (overlay # Null /\ GroundOverlayRendered) => GroundOverlayOpacity = overlay[1].opacity

OpacityUpdateFrame ==
    (/\ overlay # Null
     /\ overlay' # Null
     /\ overlay'[1].id = overlay[1].id
     /\ overlay'[1].opacity # overlay[1].opacity)
        => /\ overlay'[1] = [overlay[1] EXCEPT !.opacity = overlay'[1].opacity]
           /\ referencePoints' = referencePoints

C27_OpacityIndependent == []RenderedAsStored /\ [][OpacityUpdateFrame]_vars

(***************************************************************************)
(* C28: the document cache is bounded.  In every state the cache holds at  *)
(* most MAX_CACHE_SIZE documents, however the calls for different files    *)
(* interleave, and a step that takes one document out of a cache that is   *)
(* not cleared takes out the one inserted first.                           *)
(***************************************************************************)
CacheBounded == Len(pdfToImage.documentCache) <= MAX_CACHE_SIZE

EvictsOldest ==
    (/\ Len(pdfToImage'.documentCache) < Len(pdfToImage.documentCache)
     /\ pdfToImage'.documentCache # <<>>)
        => pdfToImage'.documentCache = Tail(pdfToImage.documentCache)

C28_CacheBounded == []CacheBounded /\ [][EvictsOldest]_vars

(***************************************************************************)
(* C29: the memory counter follows the conversions in flight.  In every    *)
(* state totalMemoryUsage is not negative, and it is 0 when no call is at  *)
(* the await of its render.                                                *)
(***************************************************************************)
Rendering == {call \in pdfToImage.calls : call.at = "render"}

C29_MemoryCounter ==
    /\ pdfToImage.totalMemoryUsage >= 0
    /\ Rendering = {} => pdfToImage.totalMemoryUsage = 0

(***************************************************************************)
(* C30: a dismissal belongs to one error.  A call of onDismiss that clears *)
(* a displayed error comes from a close click or an auto-hide timeout that *)
(* happened while that same error was displayed, never from the dismissal  *)
(* of an error shown before it.                                            *)
(***************************************************************************)
DismissesOwnError ==
    (/\ notification'.closing < notification.closing
     /\ error # NoError
     /\ error' = NoError)
        => Head(notification.closingFor) = error

C30_DismissalOfOneError == [][DismissesOwnError]_vars

====
